---- MODULE Spec2Model ----
(***************************************************************************)
(* opencode-consilium: the concurrent agent-invocation engine.             *)
(*                                                                         *)
(* agents.ts  : cancel / resetCancel / isCancelled, parseJsonOutput,       *)
(*              calculateRetryDelay, callAgent, callAgentOnce,             *)
(*              callExpertsParallel, callChair                             *)
(* index.ts   : Consilium.run, createCancelledResult                       *)
(* defaults.ts: DEFAULT_CHAIR_PROMPT_TEMPLATE                              *)
(*                                                                         *)
(* JavaScript runs one synchronous code segment at a time.  Every action   *)
(* below is one such segment: an event handler, or the continuation of an  *)
(* async function after an await.  Continuations of already settled        *)
(* promises (microtasks) run before any timer, process event or signal is  *)
(* delivered; the guard Quiescent states this.                             *)
(***************************************************************************)
EXTENDS Integers, Sequences, FiniteSets, TLC

(***************************************************************************)
(* Bounds of the model.                                                    *)
(***************************************************************************)
NumExperts == 2        \* experts in config.experts (round specification)
MaxRetries == 1        \* largest retry count of the round specification
MaxRetriesSolo == 2    \* largest retry count of the single-task specification
MaxTimeouts == 1       \* launches whose countdown expires in one behaviour
MaxErrors == 1         \* 'error' events emitted in one behaviour
MaxThrows == 1         \* hook invocations that throw in one behaviour
MaxStreamLen == 3      \* tokens a process writes (decode specification)
MaxBusyCalls == 1      \* run() calls on an instance that is not idle, in one behaviour

(***************************************************************************)
(* Text.  A string is a sequence of characters; a placeholder message of   *)
(* the source is kept as one opaque character.                             *)
(***************************************************************************)
Str(c) == <<c>>

Repeat(c, n) == [j \in 1..n |-> c]

\* String.prototype.substring(0, n)
substring0(s, n) == IF n <= 0 THEN <<>> ELSE SubSeq(s, 1, IF n < Len(s) THEN n ELSE Len(s))

\* String.prototype.toUpperCase on the agent names of the model
toUpperCase(name) ==
  CASE name = "arch" -> "ARCH"
    [] name = "ux" -> "UX"
    [] name = "ba" -> "BA"
    [] name = "consilium" -> "CONSILIUM"
    [] name = "chair2" -> "CHAIR2"
    [] OTHER -> name

\* optional numbers (undefined / a value)
None == [set |-> FALSE, val |-> 0]
Some(n) == [set |-> TRUE, val |-> n]

(***************************************************************************)
(* The output stream of a process, as the tokens the decoder tells apart:  *)
(* a newline, other whitespace, a run of non-JSON characters, a complete   *)
(* JSON value that is not an object (null, 5, "s"), and a complete JSON    *)
(* object {"type": type, "part": {"text": text}} (hasPart = FALSE: the     *)
(* object has no "part").                                                  *)
(***************************************************************************)
NL == [kind |-> "nl", type |-> "", hasPart |-> FALSE, text |-> <<>>]
SP == [kind |-> "sp", type |-> "", hasPart |-> FALSE, text |-> <<>>]
Junk == [kind |-> "junk", type |-> "", hasPart |-> FALSE, text |-> <<>>]
Scalar == [kind |-> "scalar", type |-> "", hasPart |-> FALSE, text |-> <<>>]
Rec(type, hasPart, text) == [kind |-> "rec", type |-> type, hasPart |-> hasPart, text |-> text]
TextRec(text) == Rec("text", TRUE, text)

IsWs(tok) == tok.kind \in {"nl", "sp"}

\* String.prototype.trim
RECURSIVE trimStart(_)
trimStart(s) == IF s = <<>> THEN s ELSE IF IsWs(Head(s)) THEN trimStart(Tail(s)) ELSE s

RECURSIVE trimEnd(_)
trimEnd(s) == IF s = <<>> THEN s ELSE IF IsWs(s[Len(s)]) THEN trimEnd(SubSeq(s, 1, Len(s) - 1)) ELSE s

trim(s) == trimEnd(trimStart(s))

\* String.prototype.split('\n'): the sequence of lines; '' splits to ['']
RECURSIVE splitLines(_)
splitLines(s) ==
  IF \A p \in 1..Len(s) : s[p].kind # "nl" THEN <<s>>
  ELSE LET p == CHOOSE q \in 1..Len(s) : s[q].kind = "nl" /\ \A r \in 1..(q - 1) : s[r].kind # "nl"
       IN <<SubSeq(s, 1, p - 1)>> \o splitLines(SubSeq(s, p + 1, Len(s)))

\* JSON.parse(trimmed) succeeds iff the line is exactly one JSON value
JSONparses(line) == Len(line) = 1 /\ line[1].kind \in {"rec", "scalar"}

\* faulty variant: the record type is not compared
IsTextEventAnyType(event) ==
  event.kind = "rec" /\ event.hasPart /\ event.text # <<>>

\* event.type === 'text' && event.part?.text   (reading .type of null throws
\* inside the try, a scalar has no .type; an empty text is falsy)
IsTextEvent(event) ==
  event.kind = "rec" /\ event.type = "text" /\ event.hasPart /\ event.text # <<>>

\* the for loop of parseJsonOutput, from line index k on, textParts joined
RECURSIVE parseLines(_, _)
parseLines(lines, k) ==
  IF k > Len(lines) THEN <<>>
  ELSE LET trimmed == trim(lines[k])
       IN IF trimmed = <<>> THEN parseLines(lines, k + 1)
          ELSE IF JSONparses(trimmed) /\ IsTextEvent(trimmed[1])
               THEN trimmed[1].text \o parseLines(lines, k + 1)
               ELSE parseLines(lines, k + 1)

parseJsonOutput(output) == parseLines(splitLines(trim(output)), 1)

(***************************************************************************)
(* calculateRetryDelay                                                     *)
(***************************************************************************)
RECURSIVE pow2(_)
pow2(n) == IF n <= 0 THEN 1 ELSE 2 * pow2(n - 1)

\* faulty variant: the exponent taken from the attempt index instead of attempt - 1
calculateRetryDelayShifted(attempt, baseDelay, exponentialBackoff) ==
  IF ~exponentialBackoff THEN baseDelay ELSE baseDelay * pow2(attempt + 1)

calculateRetryDelay(attempt, baseDelay, exponentialBackoff) ==
  IF ~exponentialBackoff THEN baseDelay ELSE baseDelay * pow2(attempt)

(***************************************************************************)
(* AgentResult (types.ts).  An absent errorCode is "none"; an absent       *)
(* attempt or duration is None.                                            *)
(***************************************************************************)
Outcome(agent, text, success, errorCode, attempt, duration) ==
  [agent |-> agent, text |-> text, success |-> success, errorCode |-> errorCode,
   attempt |-> attempt, duration |-> duration]

\* no AgentResult (null / not yet produced)
NoOutcome == Outcome("", <<>>, FALSE, "null", None, None)

ErrorCodes == {"TIMEOUT", "EMPTY_RESPONSE", "SPAWN_ERROR", "PARSE_ERROR"}

\* callAgent, the outcome returned when the flag is seen at the top of the loop
CancelledOutcome(agentName, attempt) ==
  Outcome(agentName, Str("[Otmeneno]"), FALSE, "TIMEOUT", Some(attempt), None)

\* callAgent, the fallback of `lastError || {...}`
ExhaustedOutcome(agentName) ==
  Outcome(agentName, Str("[Vse popytki ischerpany]"), FALSE, "TIMEOUT", None, None)

\* callAgentOnce, the three resolve() calls
TimeoutOutcome(agentName, attempt) ==
  Outcome(agentName, Str("[Taimaut " \o agentName \o "]"), FALSE, "TIMEOUT", Some(attempt), None)

\* faulty variant: the empty-text check is missing
CloseOutcomeUnchecked(agentName, stdout, attempt) ==
  Outcome(agentName, parseJsonOutput(stdout), TRUE, "none", Some(attempt), None)

CloseOutcome(agentName, stdout, attempt) ==
  LET text == parseJsonOutput(stdout)
  IN IF text = <<>>
     THEN Outcome(agentName, Str("[Agent " \o agentName \o " ne vernul tekst]"), FALSE,
                  "EMPTY_RESPONSE", Some(attempt), None)
     ELSE Outcome(agentName, text, TRUE, "none", Some(attempt), None)

ErrorOutcome(agentName, attempt) ==
  Outcome(agentName, Str("[Oshibka: err.message]"), FALSE, "SPAWN_ERROR", Some(attempt), None)

(***************************************************************************)
(* DEFAULT_CHAIR_PROMPT_TEMPLATE (defaults.ts).  The fixed parts of the    *)
(* template are single characters of the model.                            *)
(***************************************************************************)
ChairTextLimit == 3000

ExpertSection(agent, text) ==
  LET cleanText == substring0(text, ChairTextLimit)
  IN <<"### ", toUpperCase(agent), "\n">> \o cleanText \o <<"\n\n">>

RECURSIVE ExpertSections(_, _)
ExpertSections(experts, k) ==
  IF k > Len(experts) THEN <<>>
  ELSE ExpertSection(experts[k].agent, experts[k].text) \o ExpertSections(experts, k + 1)

PromptHeader(task) ==
  <<"[Sinteziruj mneniya]\n\n", "## Zadacha\n">> \o task \o <<"\n\n", "## Mneniya ekspertov\n">>

PromptFooter == <<"## Trebovaniya k otvetu\n", "1.", "2.", "3.", "4.">>

DEFAULT_CHAIR_PROMPT_TEMPLATE(task, experts) ==
  PromptHeader(task) \o ExpertSections(experts, 1) \o PromptFooter

(***************************************************************************)
(* State.                                                                  *)
(***************************************************************************)
VARIABLES
  cancelled,        \* agents.ts: let cancelled
  activeProcesses,  \* agents.ts: const activeProcesses (set of handles)
  launches,         \* one entry per callAgentOnce call: its closure and its child process
  tasks,            \* one entry per expert / chair of an instance: the callAgent frame
  run,              \* one entry per Consilium instance: status and the run() frame
  config,           \* this.config of every instance
  options,          \* the RunOptions of every instance's run() call
  env,              \* what the environment can do (output alphabet, availability)
  used              \* how many hook invocations have thrown, how many run() calls were refused

vars == <<cancelled, activeProcesses, launches, tasks, run, config, options, env, used>>

Insts == DOMAIN run
TaskIds == DOMAIN tasks              \* <<instance, k>>: k = 0 the chair, k >= 1 config.experts[k]
Handles == DOMAIN launches           \* <<instance, k, attempt>>

ChairIdx == 0
IsChair(t) == t[2] = ChairIdx
TaskOf(h) == <<h[1], h[2]>>
HandleOf(t) == <<t[1], t[2], tasks[t].attempt>>

ExpertNames == <<"arch", "ux", "ba", "sec">>
TaskText == Str("task")

ExpertHooks == {"onExpertStart", "onExpertEnd", "onExpertError"}
ChairHooks == {"onChairStart", "onChairEnd", "onChairError"}
RunHooks == {"onStart", "onEnd", "onError"}

\* config.hooks?.onX of the engine functions (they receive this.config)
StartHook(t) == IF IsChair(t) THEN "onChairStart" ELSE "onExpertStart"
EndHook(t) == IF IsChair(t) THEN "onChairEnd" ELSE "onExpertEnd"
\* faulty variant: the two roles exchanged
ErrorHookSwapped(t) == IF IsChair(t) THEN "onExpertError" ELSE "onChairError"

\* callAgent: isChair ? config.hooks.onChairError : config.hooks.onExpertError
ErrorHook(t) == IF IsChair(t) THEN "onChairError" ELSE "onExpertError"
HasHook(t, name) == name \in config[t[1]].hooks

\* Consilium.mergeHooks: { ...this.config.hooks, ...extraHooks }
mergeHooks(i) == config[i].hooks \cup options[i].hooks

(***************************************************************************)
(* The microtask queue: continuations whose promise is already settled.    *)
(***************************************************************************)
FanoutTasks(i) == {<<i, run[i].fanout[j]>> : j \in 1..Len(run[i].fanout)}

\* faulty variant: the join waits for the first expert only (Promise.race / Promise.any)
ExpertsFulfilledAny(i) == run[i].pc = "experts" /\ \E t \in FanoutTasks(i) : tasks[t].pc = "done"

ExpertsFulfilled(i) == run[i].pc = "experts" /\ \A t \in FanoutTasks(i) : tasks[t].pc = "done"
ExpertsRejectedNow(i) == run[i].pc = "experts" /\ \E t \in FanoutTasks(i) : tasks[t].pc = "rejected"
ChairFulfilled(i) == run[i].pc = "chair" /\ tasks[<<i, ChairIdx>>].pc = "done"
ChairRejectedNow(i) == run[i].pc = "chair" /\ tasks[<<i, ChairIdx>>].pc = "rejected"

Quiescent ==
  /\ \A t \in TaskIds : tasks[t].pc \notin {"resolved", "returned"}
  /\ \A i \in Insts : ~(ExpertsFulfilled(i) \/ ExpertsRejectedNow(i) \/ ChairFulfilled(i) \/ ChairRejectedNow(i))

(***************************************************************************)
(* callAgentOnce: the closure of one launch and its child process.         *)
(***************************************************************************)
NewLaunch(timeoutMs) ==
  [timeoutMs |-> timeoutMs, finished |-> FALSE, timer |-> "pending", stdout |-> <<>>,
   proc |-> "alive", errored |-> FALSE, signals |-> 0, resolves |-> 0, deletes |-> 0,
   outcome |-> NoOutcome, path |-> "none",
   \* history: cancel() ran while the launch was awaiting its outcome; output
   \* arrived after the outcome was resolved
   cancelledSince |-> FALSE, lateData |-> FALSE]

(***************************************************************************)
(* callAgent: the frame of one task.                                       *)
(***************************************************************************)
IdleTask ==
  [pc |-> "idle", agent |-> "", attempt |-> 0, maxAttempts |-> 0, timeoutMs |-> 0,
   lastError |-> NoOutcome, result |-> NoOutcome, slept |-> <<>>,
   \* history: callAgent invocations for the task, failure hook invocations, the
   \* time spent in the attempts awaited so far, the per-task hooks invoked in order
   calls |-> 0, errHooks |-> 0, elapsed |-> 0, log |-> <<>>]

\* history: one invocation of a per-task hook: the hook, the outcome passed to it, and
\* how many launches and backoff sleeps the task had started by then
HookCall(t, tk, name, arg) ==
  Append(tk.log, [hook |-> name, arg |-> arg, slept |-> Len(tk.slept),
                  launched |-> Cardinality({h \in Handles : TaskOf(h) = t})])

\* expert.timeout || config.timeouts.expert
OrElse(opt, default) == IF opt.set /\ opt.val # 0 THEN opt.val ELSE default
\* expert.retries ?? config.retry.expertRetries
Coalesce(opt, default) == IF opt.set THEN opt.val ELSE default

TimeoutFor(t) ==
  IF IsChair(t) THEN OrElse(config[t[1]].chair.timeout, config[t[1]].timeouts.chair)
  ELSE OrElse(config[t[1]].experts[t[2]].timeout, config[t[1]].timeouts.expert)

RetriesFor(t) ==
  IF IsChair(t) THEN config[t[1]].retry.chairRetries
  ELSE Coalesce(config[t[1]].experts[t[2]].retries, config[t[1]].retry.expertRetries)

\* faulty variant: the loop condition `attempt <= maxAttempts`
LoopTopOffByOne(t, tk, a) ==
  IF a > tk.maxAttempts
  THEN [tk EXCEPT !.pc = "returned", !.attempt = a,
                  !.result = IF tk.lastError # NoOutcome THEN tk.lastError
                             ELSE ExhaustedOutcome(tk.agent)]
  ELSE IF cancelled
  THEN [tk EXCEPT !.pc = "returned", !.attempt = a, !.result = CancelledOutcome(tk.agent, a)]
  ELSE IF a > 0
  THEN [tk EXCEPT !.pc = "sleeping", !.attempt = a,
                  !.slept = Append(@, calculateRetryDelay(a - 1, config[t[1]].retry.delay,
                                                          config[t[1]].retry.exponentialBackoff))]
  ELSE [tk EXCEPT !.pc = "running", !.attempt = a]

\* faulty variant: the flag is tested after the backoff sleep instead of before it
LoopTopSleepsFirst(t, tk, a) ==
  IF a >= tk.maxAttempts
  THEN [tk EXCEPT !.pc = "returned", !.attempt = a,
                  !.result = IF tk.lastError # NoOutcome THEN tk.lastError
                             ELSE ExhaustedOutcome(tk.agent)]
  ELSE IF a > 0
  THEN [tk EXCEPT !.pc = "sleeping", !.attempt = a,
                  !.slept = Append(@, calculateRetryDelay(a - 1, config[t[1]].retry.delay,
                                                          config[t[1]].retry.exponentialBackoff))]
  ELSE IF cancelled
  THEN [tk EXCEPT !.pc = "returned", !.attempt = a, !.result = CancelledOutcome(tk.agent, a)]
  ELSE [tk EXCEPT !.pc = "running", !.attempt = a]

\* faulty variant: the flag is tested from the second pass on only
LoopTopFirstPassBlind(t, tk, a) ==
  IF a >= tk.maxAttempts
  THEN [tk EXCEPT !.pc = "returned", !.attempt = a,
                  !.result = IF tk.lastError # NoOutcome THEN tk.lastError
                             ELSE ExhaustedOutcome(tk.agent)]
  ELSE IF cancelled /\ a > 0
  THEN [tk EXCEPT !.pc = "returned", !.attempt = a, !.result = CancelledOutcome(tk.agent, a)]
  ELSE IF a > 0
  THEN [tk EXCEPT !.pc = "sleeping", !.attempt = a,
                  !.slept = Append(@, calculateRetryDelay(a - 1, config[t[1]].retry.delay,
                                                          config[t[1]].retry.exponentialBackoff))]
  ELSE [tk EXCEPT !.pc = "running", !.attempt = a]

\* callAgent, one pass of `for (attempt ...)` from the loop condition to the
\* first await or return; tk is the frame, a the value of `attempt`
LoopTop(t, tk, a) ==
  IF a >= tk.maxAttempts
  THEN [tk EXCEPT !.pc = "returned", !.attempt = a,
                  !.result = IF tk.lastError # NoOutcome THEN tk.lastError
                             ELSE ExhaustedOutcome(tk.agent)]
  ELSE IF cancelled
  THEN [tk EXCEPT !.pc = "returned", !.attempt = a, !.result = CancelledOutcome(tk.agent, a)]
  ELSE IF a > 0
  THEN [tk EXCEPT !.pc = "sleeping", !.attempt = a,
                  !.slept = Append(@, calculateRetryDelay(a - 1, config[t[1]].retry.delay,
                                                          config[t[1]].retry.exponentialBackoff))]
  ELSE [tk EXCEPT !.pc = "running", !.attempt = a]

\* callAgent from its entry to the first await or return
callAgent(t, agentName) ==
  LoopTop(t, [IdleTask EXCEPT !.agent = agentName, !.maxAttempts = RetriesFor(t) + 1,
                              !.timeoutMs = TimeoutFor(t), !.calls = tasks[t].calls + 1,
                              !.log = tasks[t].log], 0)

\* faulty variant: the start hook is skipped
TaskStartUnnotified(t, agentName) == callAgent(t, agentName)

\* the callback of enabledExperts.map / the body of callChair after the prompt:
\* fire the start hook and await it, or enter callAgent
TaskStart(t, agentName) ==
  IF HasHook(t, StartHook(t))
  THEN [IdleTask EXCEPT !.pc = "startHook", !.agent = agentName,
                        !.log = HookCall(t, IdleTask, StartHook(t), NoOutcome)]
  ELSE callAgent(t, agentName)

\* the launches spawned by a segment that moved the tasks of ts to newTasks
Spawned(ts, newTasks) ==
  {<<t[1], t[2], newTasks[t].attempt>> : t \in {u \in ts : newTasks[u].pc = "running"}}

\* faulty variant: the spawned handles are not added to the registry
SpawnAllUnregistered(ts, newTasks) ==
  LET hs == Spawned(ts, newTasks)
  IN /\ launches' = [h \in Handles \cup hs |->
                       IF h \in hs THEN NewLaunch(newTasks[TaskOf(h)].timeoutMs) ELSE launches[h]]
     /\ activeProcesses' = activeProcesses

SpawnAll(ts, newTasks) ==
  LET hs == Spawned(ts, newTasks)
  IN /\ launches' = [h \in Handles \cup hs |->
                       IF h \in hs THEN NewLaunch(newTasks[TaskOf(h)].timeoutMs) ELSE launches[h]]
     /\ activeProcesses' = activeProcesses \cup hs

\* the countdowns that have expired and the 'error' events emitted so far
TimeoutsSoFar == Cardinality({h \in Handles : launches[h].timer = "fired"})
ErrorsSoFar == Cardinality({h \in Handles : launches[h].errored})

(***************************************************************************)
(* agents.ts: cancel, resetCancel, isCancelled                             *)
(***************************************************************************)
\* faulty variant: the flag is never observed by run()
isCancelledNever == FALSE

isCancelled == cancelled

\* resetCancel(): `cancelled = false`
resetCancel == cancelled' = FALSE

\* faulty variant: the handles are signalled but the registry is not cleared
cancelKeepsRegistry ==
  /\ Quiescent
  /\ cancelled' = TRUE
  /\ launches' = [h \in Handles |->
                    LET L == [launches[h] EXCEPT !.cancelledSince = @ \/ ~launches[h].finished]
                    IN IF h \in activeProcesses THEN [L EXCEPT !.signals = @ + 1] ELSE L]
  /\ run' = [i \in Insts |->
               IF run[i].cancelAt = "" /\ run[i].status \in {"running_experts", "running_chair"}
               THEN [run[i] EXCEPT !.cancelAt = run[i].status] ELSE run[i]]
  /\ UNCHANGED <<activeProcesses, tasks, config, options, env, used>>

\* faulty variant: a registry per round, cancel() reaches one round's processes only
cancelOneRound ==
  /\ Quiescent
  /\ cancelled' = TRUE
  /\ \E i \in Insts :
       /\ launches' = [h \in Handles |->
                         LET L == [launches[h] EXCEPT !.cancelledSince = @ \/ ~launches[h].finished]
                         IN IF h \in activeProcesses /\ h[1] = i THEN [L EXCEPT !.signals = @ + 1]
                            ELSE L]
       /\ activeProcesses' = {h \in activeProcesses : h[1] # i}
  /\ run' = [i \in Insts |->
               IF run[i].cancelAt = "" /\ run[i].status \in {"running_experts", "running_chair"}
               THEN [run[i] EXCEPT !.cancelAt = run[i].status] ELSE run[i]]
  /\ UNCHANGED <<tasks, config, options, env, used>>

\* faulty variant: every process ever spawned is signalled, not only the registered ones
cancelSignalsEveryLaunch ==
  /\ Quiescent
  /\ cancelled' = TRUE
  /\ launches' = [h \in Handles |->
                    [launches[h] EXCEPT !.cancelledSince = @ \/ ~launches[h].finished,
                                        !.signals = @ + 1]]
  /\ activeProcesses' = {}
  /\ run' = [i \in Insts |->
               IF run[i].cancelAt = "" /\ run[i].status \in {"running_experts", "running_chair"}
               THEN [run[i] EXCEPT !.cancelAt = run[i].status] ELSE run[i]]
  /\ UNCHANGED <<tasks, config, options, env, used>>

cancel ==
  /\ Quiescent
  /\ cancelled' = TRUE
  /\ launches' = [h \in Handles |->
                    LET L == [launches[h] EXCEPT !.cancelledSince = @ \/ ~launches[h].finished]
                    IN IF h \in activeProcesses THEN [L EXCEPT !.signals = @ + 1] ELSE L]
  /\ activeProcesses' = {}
  /\ run' = [i \in Insts |->
               IF run[i].cancelAt = "" /\ run[i].status \in {"running_experts", "running_chair"}
               THEN [run[i] EXCEPT !.cancelAt = run[i].status] ELSE run[i]]
  /\ UNCHANGED <<tasks, config, options, env, used>>

(***************************************************************************)
(* callAgentOnce: the handlers of one launch.                              *)
(***************************************************************************)
\* child.stdout.on('data').  Once the launch has finished its stdout string is
\* never read again: the model keeps its contents only until then, and afterwards
\* only the fact that more output arrived (where the environment writes any).
OnData(h) ==
  /\ Quiescent
  /\ launches[h].proc = "alive"
  /\ Len(launches[h].stdout) < env.maxOut[h[2]]
  /\ launches[h].finished => env.lateOutput
  /\ \E tok \in env.tokens[h[2]] :
       launches' = [launches EXCEPT ![h] =
                      IF launches[h].finished THEN [@ EXCEPT !.lateData = TRUE]
                      ELSE [@ EXCEPT !.stdout = Append(@, tok)]]
  /\ UNCHANGED <<cancelled, activeProcesses, tasks, run, config, options, env, used>>

\* faulty variant: the `finished` flag is not set by a terminal path
ResolveUnguarded(h, L, outcome, path) ==
  [L EXCEPT !.deletes = @ + 1, !.resolves = @ + 1,
            !.outcome = outcome, !.path = path, !.stdout = <<>>]

\* the finished branch shared by the three terminal handlers: resolve(outcome)
Resolve(h, L, outcome, path) ==
  [L EXCEPT !.finished = TRUE, !.deletes = @ + 1, !.resolves = @ + 1,
            !.outcome = outcome, !.path = path, !.stdout = <<>>]

\* child.on('close')
OnClose(h) ==
  LET L == launches[h]
      t == TaskOf(h)
  IN /\ Quiescent
     /\ L.proc = "alive"
     /\ IF L.finished
        THEN /\ launches' = [launches EXCEPT ![h].proc = "closed"]
             /\ UNCHANGED <<activeProcesses, tasks>>
        ELSE /\ launches' = [launches EXCEPT ![h] =
                  [Resolve(h, L, CloseOutcome(tasks[t].agent, L.stdout, h[3]), "close")
                     EXCEPT !.proc = "closed", !.timer = "cleared"]]
             /\ activeProcesses' = activeProcesses \ {h}
             /\ tasks' = [tasks EXCEPT ![t].pc = "resolved"]
     /\ UNCHANGED <<cancelled, run, config, options, env, used>>

\* child.on('error')
OnError(h) ==
  LET L == launches[h]
      t == TaskOf(h)
  IN /\ Quiescent
     /\ L.proc = "alive"
     /\ ~L.errored
     /\ ErrorsSoFar < MaxErrors
     /\ IF L.finished
        THEN /\ launches' = [launches EXCEPT ![h].errored = TRUE]
             /\ UNCHANGED <<activeProcesses, tasks>>
        ELSE /\ launches' = [launches EXCEPT ![h] =
                  [Resolve(h, L, ErrorOutcome(tasks[t].agent, h[3]), "error")
                     EXCEPT !.errored = TRUE, !.timer = "cleared"]]
             /\ activeProcesses' = activeProcesses \ {h}
             /\ tasks' = [tasks EXCEPT ![t].pc = "resolved"]
     /\ UNCHANGED <<cancelled, run, config, options, env, used>>

\* faulty variant: the expired countdown resolves the outcome and leaves the process running
OnTimeoutNoKill(h) ==
  LET L == launches[h]
      t == TaskOf(h)
  IN /\ Quiescent
     /\ L.timer = "pending"
     /\ TimeoutsSoFar < env.maxTimeouts
     /\ IF L.finished
        THEN /\ launches' = [launches EXCEPT ![h].timer = "fired"]
             /\ UNCHANGED <<activeProcesses, tasks>>
        ELSE /\ launches' = [launches EXCEPT ![h] =
                  [Resolve(h, L, TimeoutOutcome(tasks[t].agent, h[3]), "timeout")
                     EXCEPT !.timer = "fired"]]
             /\ activeProcesses' = activeProcesses \ {h}
             /\ tasks' = [tasks EXCEPT ![t].pc = "resolved"]
     /\ UNCHANGED <<cancelled, run, config, options, env, used>>

\* faulty variant: the expired countdown kills every registered process
OnTimeoutKillsAll(h) ==
  LET L == launches[h]
      t == TaskOf(h)
  IN /\ Quiescent
     /\ L.timer = "pending"
     /\ TimeoutsSoFar < env.maxTimeouts
     /\ IF L.finished
        THEN /\ launches' = [launches EXCEPT ![h].timer = "fired"]
             /\ UNCHANGED <<activeProcesses, tasks>>
        ELSE /\ launches' = [g \in Handles |->
                  IF g = h
                  THEN [Resolve(h, L, TimeoutOutcome(tasks[t].agent, h[3]), "timeout")
                          EXCEPT !.timer = "fired", !.signals = @ + 1]
                  ELSE IF g \in activeProcesses THEN [launches[g] EXCEPT !.signals = @ + 1]
                  ELSE launches[g]]
             /\ activeProcesses' = activeProcesses \ {h}
             /\ tasks' = [tasks EXCEPT ![t].pc = "resolved"]
     /\ UNCHANGED <<cancelled, run, config, options, env, used>>

\* the setTimeout callback of the launch
OnTimeout(h) ==
  LET L == launches[h]
      t == TaskOf(h)
  IN /\ Quiescent
     /\ L.timer = "pending"
     /\ TimeoutsSoFar < env.maxTimeouts
     /\ IF L.finished
        THEN /\ launches' = [launches EXCEPT ![h].timer = "fired"]
             /\ UNCHANGED <<activeProcesses, tasks>>
        ELSE /\ launches' = [launches EXCEPT ![h] =
                  [Resolve(h, L, TimeoutOutcome(tasks[t].agent, h[3]), "timeout")
                     EXCEPT !.timer = "fired", !.signals = @ + 1]]
             /\ activeProcesses' = activeProcesses \ {h}
             /\ tasks' = [tasks EXCEPT ![t].pc = "resolved"]
     /\ UNCHANGED <<cancelled, run, config, options, env, used>>

(***************************************************************************)
(* callAgent: the continuations of its awaits.                             *)
(***************************************************************************)
\* faulty variant: a failed attempt is thrown instead of recorded
AttemptResolvedThrows(t) ==
  LET tk == tasks[t]
      result == launches[HandleOf(t)].outcome
  IN /\ tk.pc = "resolved"
     /\ \E d \in env.durations :
          IF result.success
          THEN tasks' = [tasks EXCEPT ![t] =
                  [tk EXCEPT !.pc = "returned", !.elapsed = @ + d,
                             !.result = [result EXCEPT !.duration = Some(d)]]]
          ELSE tasks' = [tasks EXCEPT ![t] =
                  [tk EXCEPT !.pc = "rejected", !.elapsed = @ + d, !.lastError = result]]
     /\ UNCHANGED <<cancelled, activeProcesses, launches, run, config, options, env, used>>

\* faulty variant: startTime is taken once, before the loop
AttemptResolvedTotalTime(t) ==
  LET tk == tasks[t]
      result == launches[HandleOf(t)].outcome
  IN /\ tk.pc = "resolved"
     /\ \E d \in env.durations :
          IF result.success
          THEN tasks' = [tasks EXCEPT ![t] =
                  [tk EXCEPT !.pc = "returned", !.elapsed = @ + d,
                             !.result = [result EXCEPT !.duration = Some(tk.elapsed + d)]]]
          ELSE tasks' = [tasks EXCEPT ![t] =
                  IF HasHook(t, ErrorHook(t))
                  THEN [tk EXCEPT !.pc = "errHook", !.elapsed = @ + d, !.lastError = result,
                                  !.errHooks = @ + 1,
                                  !.log = HookCall(t, tk, ErrorHook(t), result)]
                  ELSE LoopTop(t, [tk EXCEPT !.elapsed = @ + d, !.lastError = result],
                               tk.attempt + 1)]
     /\ UNCHANGED <<cancelled, activeProcesses, launches, run, config, options, env, used>>

\* after `await callAgentOnce(...)`; d is Date.now() - startTime
AttemptResolved(t) ==
  LET tk == tasks[t]
      result == launches[HandleOf(t)].outcome
  IN /\ tk.pc = "resolved"
     /\ \E d \in env.durations :
          IF result.success
          THEN tasks' = [tasks EXCEPT ![t] =
                  [tk EXCEPT !.pc = "returned", !.elapsed = @ + d,
                             !.result = [result EXCEPT !.duration = Some(d)]]]
          ELSE tasks' = [tasks EXCEPT ![t] =
                  IF HasHook(t, ErrorHook(t))
                  THEN [tk EXCEPT !.pc = "errHook", !.elapsed = @ + d, !.lastError = result,
                                  !.errHooks = @ + 1,
                                  !.log = HookCall(t, tk, ErrorHook(t), result)]
                  ELSE LoopTop(t, [tk EXCEPT !.elapsed = @ + d, !.lastError = result],
                               tk.attempt + 1)]
     /\ UNCHANGED <<cancelled, activeProcesses, launches, run, config, options, env, used>>

\* after `await errorHook(result)`
ErrorHookReturned(t) ==
  /\ Quiescent
  /\ tasks[t].pc = "errHook"
  /\ tasks' = [tasks EXCEPT ![t] = LoopTop(t, tasks[t], tasks[t].attempt + 1)]
  /\ UNCHANGED <<cancelled, activeProcesses, launches, run, config, options, env, used>>

\* faulty variant: the retry is spawned while the previous launch still awaits its outcome
SleepDoneEarly(t) ==
  LET newTasks == [tasks EXCEPT ![t].attempt = @ + 1]
  IN /\ Quiescent
     /\ tasks[t].pc = "running"
     /\ tasks[t].attempt + 1 < tasks[t].maxAttempts
     /\ tasks' = newTasks
     /\ SpawnAll({t}, newTasks)
     /\ UNCHANGED <<cancelled, run, config, options, env, used>>

\* after `await new Promise(resolve => setTimeout(resolve, delay))`
SleepDone(t) ==
  LET newTasks == [tasks EXCEPT ![t].pc = "running"]
  IN /\ Quiescent
     /\ tasks[t].pc = "sleeping"
     /\ tasks' = newTasks
     /\ SpawnAll({t}, newTasks)
     /\ UNCHANGED <<cancelled, run, config, options, env, used>>

(***************************************************************************)
(* callExpertsParallel / callChair: the continuations around callAgent.    *)
(***************************************************************************)
\* after `await config.hooks.onExpertStart(...)` / onChairStart
StartHookReturned(t) ==
  LET newTasks == [tasks EXCEPT ![t] = callAgent(t, tasks[t].agent)]
  IN /\ Quiescent
     /\ tasks[t].pc = "startHook"
     /\ tasks' = newTasks
     /\ SpawnAll({t}, newTasks)
     /\ UNCHANGED <<cancelled, run, config, options, env, used>>

\* after `await callAgent(...)`
AgentReturned(t) ==
  /\ tasks[t].pc = "returned"
  /\ tasks' = [tasks EXCEPT ![t] =
                 IF HasHook(t, EndHook(t))
                 THEN [@ EXCEPT !.pc = "endHook",
                                !.log = HookCall(t, tasks[t], EndHook(t), tasks[t].result)]
                 ELSE [@ EXCEPT !.pc = "done"]]
  /\ run' = [run EXCEPT ![t[1]].inversion =
               @ \/ (~IsChair(t) /\ ~HasHook(t, EndHook(t))
                     /\ \E u \in FanoutTasks(t[1]) : u[2] < t[2] /\ tasks[u].pc # "done")]
  /\ UNCHANGED <<cancelled, activeProcesses, launches, config, options, env, used>>

\* after `await config.hooks.onExpertEnd(result)` / onChairEnd
EndHookReturned(t) ==
  /\ Quiescent
  /\ tasks[t].pc = "endHook"
  /\ tasks' = [tasks EXCEPT ![t].pc = "done"]
  /\ run' = [run EXCEPT ![t[1]].inversion =
               @ \/ (~IsChair(t) /\ \E u \in FanoutTasks(t[1]) : u[2] < t[2] /\ tasks[u].pc # "done")]
  /\ UNCHANGED <<cancelled, activeProcesses, launches, config, options, env, used>>

\* a per-task hook (start, error, end) throws or rejects: the task's promise rejects
HookThrew(t) ==
  /\ Quiescent
  /\ tasks[t].pc \in {"startHook", "errHook", "endHook"}
  /\ used.throws < MaxThrows
  /\ used' = [used EXCEPT !.throws = @ + 1]
  /\ tasks' = [tasks EXCEPT ![t].pc = "rejected"]
  /\ UNCHANGED <<cancelled, activeProcesses, launches, run, config, options, env>>

(***************************************************************************)
(* index.ts: Consilium.run                                                 *)
(***************************************************************************)
ConsiliumResult(text, experts, chair, parallelTime, success, metaCancelled) ==
  [text |-> text, experts |-> experts, chair |-> chair, parallelTime |-> parallelTime,
   success |-> success, cancelled |-> metaCancelled]

NoResult == ConsiliumResult(<<>>, <<>>, NoOutcome, 0, FALSE, FALSE)

NewRun(chairAgent) ==
  [status |-> "idle", pc |-> "new", fanout |-> <<>>, expertResults |-> <<>>,
   chairResult |-> NoOutcome, result |-> NoResult, chairAgent |-> chairAgent,
   originalChairAgent |-> chairAgent, prompt |-> <<>>, saved |-> FALSE,
   \* history: an expert settled before an earlier one of the list; the status at
   \* the first cancel() of the round; what checkOpenCodeAvailable resolved to; the
   \* run-level hooks invoked and progress events emitted, in order; callChair calls
   inversion |-> FALSE, cancelAt |-> "", available |-> "unknown", events |-> <<>>,
   chairCalls |-> 0,
   \* history: the experts whose onExpertStart was invoked, in invocation order;
   \* the value of the flag when the fan-out began
   startOrder |-> <<>>, flagAtFanOut |-> FALSE]

\* Consilium.createCancelledResult(experts, chair?)
PlaceholderChair(i) == Outcome(run[i].chairAgent, Str("[Otmeneno]"), FALSE, "none", None, None)

\* faulty variant: the success flag copied from the chair outcome
createCancelledResultMirrors(i, experts, chair) ==
  ConsiliumResult(Str("[Konsilium otmenen]"), experts,
                  IF chair # NoOutcome THEN chair ELSE PlaceholderChair(i), 0,
                  chair # NoOutcome /\ chair.success, TRUE)

createCancelledResult(i, experts, chair) ==
  ConsiliumResult(Str("[Konsilium otmenen]"), experts,
                  IF chair # NoOutcome THEN chair ELSE PlaceholderChair(i), 0, FALSE, TRUE)

\* the catch block of run(), up to `await hooks.onError(...)` or the rethrow
Catch(i, r) ==
  IF "onError" \in mergeHooks(i)
  THEN [r EXCEPT !.status = "failed", !.pc = "onError", !.events = Append(@, "onError")]
  ELSE [r EXCEPT !.status = "failed", !.pc = "thrown", !.events = Append(@, "error")]

\* expertResults.reduce((max, r) => Math.max(max, r.duration || 0), 0)
RECURSIVE MaxDuration(_, _)
MaxDuration(results, k) ==
  IF k > Len(results) THEN 0
  ELSE LET d == IF results[k].duration.set THEN results[k].duration.val ELSE 0
           m == MaxDuration(results, k + 1)
       IN IF d > m THEN d ELSE m

\* run(): `const experts = mergedOptions.experts ? ... : ...`, as indexes of config.experts
SelectedExperts(i) ==
  LET idx == [k \in 1..Len(config[i].experts) |-> k]
      byName(k) == config[i].experts[k].name \in options[i].experts.names
      byFlag(k) == config[i].experts[k].enabled
  IN IF options[i].experts.set THEN SelectSeq(idx, byName) ELSE SelectSeq(idx, byFlag)

\* callExpertsParallel: experts.filter(e => e.enabled !== false)
EnabledExperts(i, experts) ==
  LET byFlag(k) == config[i].experts[k].enabled
  IN SelectSeq(experts, byFlag)

SeqRange(s) == {s[j] : j \in 1..Len(s)}

\* run() from `const experts = ...` to `await callExpertsParallel(...)`, with
\* callExpertsParallel up to `return Promise.all(promises)`
FanOut(i, r) ==
  LET experts == SelectedExperts(i)
      enabledExperts == EnabledExperts(i, experts)
      ts == {<<i, k>> : k \in SeqRange(enabledExperts)}
      newTasks == [t \in TaskIds |->
                     IF t \in ts THEN TaskStart(t, config[i].experts[t[2]].name) ELSE tasks[t]]
      notified(k) == newTasks[<<i, k>>].pc = "startHook"
  IN IF Len(experts) = 0
     THEN /\ run' = [run EXCEPT ![i] = Catch(i, r)]
          /\ UNCHANGED <<tasks, launches, activeProcesses>>
     ELSE /\ run' = [run EXCEPT ![i] = [r EXCEPT !.pc = "experts", !.fanout = enabledExperts,
                                                 !.events = Append(@, "expert_start"),
                                                 !.startOrder = SelectSeq(enabledExperts, notified),
                                                 !.flagAtFanOut = cancelled]]
          /\ tasks' = newTasks
          /\ SpawnAll(ts, newTasks)

\* run() called on an idle instance, up to `await checkOpenCodeAvailable()`
RunCall(i) ==
  /\ Quiescent
  /\ run[i].status = "idle"
  /\ run[i].pc = "new"
  /\ resetCancel
  /\ run' = [run EXCEPT ![i].status = "running_experts", ![i].pc = "checking"]
  /\ UNCHANGED <<activeProcesses, launches, tasks, config, options, env, used>>

\* faulty variant: the flag is reset before the status is tested
RunCallBusyResets(i) ==
  /\ Quiescent
  /\ run[i].status # "idle"
  /\ used.busy < MaxBusyCalls
  /\ used' = [used EXCEPT !.busy = @ + 1]
  /\ resetCancel
  /\ UNCHANGED <<activeProcesses, launches, tasks, run, config, options, env>>

\* run() called on an instance that is not idle: `throw new Error(...)` on entry
RunCallBusy(i) ==
  /\ Quiescent
  /\ run[i].status # "idle"
  /\ used.busy < MaxBusyCalls
  /\ used' = [used EXCEPT !.busy = @ + 1]
  /\ UNCHANGED <<cancelled, activeProcesses, launches, tasks, run, config, options, env>>

\* faulty variant: the availability test sits inside the try block
CheckResolvedInsideTry(i) ==
  /\ Quiescent
  /\ run[i].pc = "checking"
  /\ \E available \in env.avail :
       IF ~available
       THEN /\ run' = [run EXCEPT ![i] = Catch(i, [@ EXCEPT !.available = "no"])]
            /\ UNCHANGED <<tasks, launches, activeProcesses>>
       ELSE IF "onStart" \in mergeHooks(i)
       THEN /\ run' = [run EXCEPT ![i].pc = "onStart", ![i].available = "yes",
                                  ![i].events = Append(@, "onStart")]
            /\ UNCHANGED <<tasks, launches, activeProcesses>>
       ELSE FanOut(i, [run[i] EXCEPT !.available = "yes"])
  /\ UNCHANGED <<cancelled, config, options, env, used>>

\* after `await checkOpenCodeAvailable()`
CheckResolved(i) ==
  /\ Quiescent
  /\ run[i].pc = "checking"
  /\ \E available \in env.avail :
       IF ~available
       THEN /\ run' = [run EXCEPT ![i].pc = "thrown", ![i].available = "no"]
            /\ UNCHANGED <<tasks, launches, activeProcesses>>
       ELSE IF "onStart" \in mergeHooks(i)
       THEN /\ run' = [run EXCEPT ![i].pc = "onStart", ![i].available = "yes",
                                  ![i].events = Append(@, "onStart")]
            /\ UNCHANGED <<tasks, launches, activeProcesses>>
       ELSE FanOut(i, [run[i] EXCEPT !.available = "yes"])
  /\ UNCHANGED <<cancelled, config, options, env, used>>

\* after `await hooks.onStart(task, this.config)`
OnStartReturned(i) ==
  /\ Quiescent
  /\ run[i].pc = "onStart"
  /\ FanOut(i, run[i])
  /\ UNCHANGED <<cancelled, config, options, env, used>>

\* faulty variant: the outcomes collected in completion order (two experts)
PromiseAllCompletionOrder(i) ==
  LET n == Len(run[i].fanout)
  IN [j \in 1..n |-> tasks[<<i, run[i].fanout[IF run[i].inversion THEN n + 1 - j ELSE j]>>].result]

\* Promise.all(promises): the outcomes in the order of the promises
PromiseAll(i) == [j \in 1..Len(run[i].fanout) |-> tasks[<<i, run[i].fanout[j]>>].result]

\* callChair: the prompt
ChairPrompt(i, expertResults) ==
  IF config[i].chair.promptTemplate = "custom" THEN Str("[custom prompt]")
  ELSE DEFAULT_CHAIR_PROMPT_TEMPLATE(TaskText, expertResults)

\* faulty variant: callChair is entered before the flag is tested
ExpertsSettledChairFirst(i) ==
  LET expertResults == PromiseAll(i)
      chairAgent == IF options[i].chair # "" THEN options[i].chair ELSE run[i].chairAgent
      c == <<i, ChairIdx>>
      newTasks == [tasks EXCEPT ![c] = TaskStart(c, chairAgent)]
  IN /\ ExpertsFulfilled(i)
     /\ IF isCancelled
        THEN run' = [run EXCEPT ![i] =
                  [@ EXCEPT !.status = "cancelled", !.pc = "returned",
                            !.chairCalls = @ + 1,
                            !.expertResults = expertResults,
                            !.result = createCancelledResult(i, expertResults, NoOutcome)]]
        ELSE run' = [run EXCEPT ![i] =
                  [@ EXCEPT !.status = "running_chair", !.pc = "chair",
                            !.events = Append(@, "chair_start"),
                            !.chairCalls = @ + 1,
                            !.expertResults = expertResults,
                            !.originalChairAgent = run[i].chairAgent,
                            !.chairAgent = chairAgent,
                            !.prompt = ChairPrompt(i, expertResults)]]
     /\ tasks' = newTasks
     /\ SpawnAll({c}, newTasks)
     /\ UNCHANGED <<cancelled, config, options, env, used>>

\* after `await callExpertsParallel(...)` fulfilled, up to `await callChair(...)`,
\* with callChair up to its first await
ExpertsSettled(i) ==
  LET expertResults == PromiseAll(i)
      chairAgent == IF options[i].chair # "" THEN options[i].chair ELSE run[i].chairAgent
      c == <<i, ChairIdx>>
      newTasks == [tasks EXCEPT ![c] = TaskStart(c, chairAgent)]
  IN /\ ExpertsFulfilled(i)
     /\ IF isCancelled
        THEN /\ run' = [run EXCEPT ![i] =
                  [@ EXCEPT !.status = "cancelled", !.pc = "returned",
                            !.expertResults = expertResults,
                            !.result = createCancelledResult(i, expertResults, NoOutcome)]]
             /\ UNCHANGED <<tasks, launches, activeProcesses>>
        ELSE /\ run' = [run EXCEPT ![i] =
                  [@ EXCEPT !.status = "running_chair", !.pc = "chair",
                            !.events = Append(@, "chair_start"),
                            !.chairCalls = @ + 1,
                            !.expertResults = expertResults,
                            !.originalChairAgent = run[i].chairAgent,
                            !.chairAgent = chairAgent,
                            !.prompt = ChairPrompt(i, expertResults)]]
             /\ tasks' = newTasks
             /\ SpawnAll({c}, newTasks)
     /\ UNCHANGED <<cancelled, config, options, env, used>>

\* `await callExpertsParallel(...)` rejected: the catch block
ExpertsRejected(i) ==
  /\ ExpertsRejectedNow(i)
  /\ run' = [run EXCEPT ![i] = Catch(i, @)]
  /\ UNCHANGED <<cancelled, activeProcesses, launches, tasks, config, options, env, used>>

\* after `await callChair(...)` fulfilled, up to `await hooks.onEnd(result)` or return
ChairSettled(i) ==
  LET chairResult == tasks[<<i, ChairIdx>>].result
      r == [run[i] EXCEPT !.chairAgent = run[i].originalChairAgent, !.chairResult = chairResult]
      result == ConsiliumResult(chairResult.text, r.expertResults, chairResult,
                                MaxDuration(r.expertResults, 1), chairResult.success, FALSE)
  IN /\ ChairFulfilled(i)
     /\ IF isCancelled
        THEN run' = [run EXCEPT ![i] =
               [r EXCEPT !.status = "cancelled", !.pc = "returned",
                         !.result = createCancelledResult(i, r.expertResults, chairResult)]]
        ELSE run' = [run EXCEPT ![i] =
               [r EXCEPT !.status = "completed",
                         !.pc = IF "onEnd" \in mergeHooks(i) THEN "onEnd" ELSE "returned",
                         !.events = Append(@, IF "onEnd" \in mergeHooks(i) THEN "onEnd"
                                              ELSE "chair_end"),
                         !.result = result,
                         !.saved = options[i].outputFile /\ config[i].output.file]]
     /\ UNCHANGED <<cancelled, activeProcesses, launches, tasks, config, options, env, used>>

\* `await callChair(...)` rejected: the catch block
ChairRejected(i) ==
  /\ ChairRejectedNow(i)
  /\ run' = [run EXCEPT ![i] = Catch(i, @)]
  /\ UNCHANGED <<cancelled, activeProcesses, launches, tasks, config, options, env, used>>

\* after `await hooks.onEnd(result)`
OnEndReturned(i) ==
  /\ Quiescent
  /\ run[i].pc = "onEnd"
  /\ run' = [run EXCEPT ![i].pc = "returned", ![i].events = Append(@, "chair_end")]
  /\ UNCHANGED <<cancelled, activeProcesses, launches, tasks, config, options, env, used>>

\* after `await hooks.onError(...)` in the catch block: `throw error`
OnErrorReturned(i) ==
  /\ Quiescent
  /\ run[i].pc = "onError"
  /\ run' = [run EXCEPT ![i].pc = "thrown", ![i].events = Append(@, "error")]
  /\ UNCHANGED <<cancelled, activeProcesses, launches, tasks, config, options, env, used>>

\* a hook awaited by run() throws or rejects
RunHookThrew(i) ==
  /\ Quiescent
  /\ run[i].pc \in {"onStart", "onEnd", "onError"}
  /\ used.throws < MaxThrows
  /\ used' = [used EXCEPT !.throws = @ + 1]
  /\ run' = [run EXCEPT ![i] = IF @.pc = "onError" THEN [@ EXCEPT !.pc = "thrown"] ELSE Catch(i, @)]
  /\ UNCHANGED <<cancelled, activeProcesses, launches, tasks, config, options, env>>

(***************************************************************************)
(* Configurations (defaults.ts: DEFAULT_CONFIG) and initial states.        *)
(***************************************************************************)
DefaultExpertTimeout == 300000
DefaultChairTimeout == 600000
DefaultDelay == 1000
DefaultChairAgent == "consilium"

ExpertCfg(k, enabled, timeout, retries) ==
  [name |-> ExpertNames[k], enabled |-> enabled, timeout |-> timeout, retries |-> retries]

MkConfig(experts, expertRetries, chairRetries, delay, exponentialBackoff, hooks, promptTemplate, maxExpertTextLength) ==
  [experts |-> experts,
   chair |-> [timeout |-> None, promptTemplate |-> promptTemplate,
              maxExpertTextLength |-> maxExpertTextLength],
   timeouts |-> [expert |-> DefaultExpertTimeout, chair |-> DefaultChairTimeout],
   retry |-> [expertRetries |-> expertRetries, chairRetries |-> chairRetries,
              delay |-> delay, exponentialBackoff |-> exponentialBackoff],
   output |-> [file |-> TRUE],
   hooks |-> hooks]

NoOptions == [experts |-> [set |-> FALSE, names |-> {}], chair |-> "", hooks |-> {}, outputFile |-> FALSE]

AllHooks == ExpertHooks \cup ChairHooks \cup RunHooks
HookChoices == {{}, AllHooks}

\* what the external program may print on one launch, per task index
TextA == TextRec(<<"A">>)
AllTokens ==
  {NL, SP, Junk, Scalar, TextA, TextRec(<<"B">>), TextRec(<<>>),
   Rec("text", FALSE, <<>>), Rec("tool", TRUE, <<"C">>)}

MkEnv(expertTokens, expertMaxOut, chairTokens, chairMaxOut) ==
  [tokens |-> [k \in 0..4 |-> IF k = ChairIdx THEN chairTokens ELSE expertTokens],
   maxOut |-> [k \in 0..4 |-> IF k = ChairIdx THEN chairMaxOut ELSE expertMaxOut],
   avail |-> BOOLEAN,
   durations |-> {1},
   lateOutput |-> FALSE,
   maxTimeouts |-> MaxTimeouts]

InitWith(cfgs, opts, e) ==
  /\ cancelled = FALSE
  /\ activeProcesses = {}
  /\ launches = [h \in {} |-> NewLaunch(0)]
  /\ config \in [{1} -> cfgs]
  /\ options \in [{1} -> opts]
  /\ env = e
  /\ run = [i \in {1} |-> NewRun(DefaultChairAgent)]
  /\ tasks = [t \in {1} \X (0..Len(config[1].experts)) |-> IdleTask]
  /\ used = [throws |-> 0, busy |-> 0]

\* a round over NumExperts experts, any of them disabled
RoundConfigs ==
  {MkConfig([k \in 1..NumExperts |-> ExpertCfg(k, en[k], None, None)], r, r,
            DefaultDelay, TRUE, hooks, "default", Some(ChairTextLimit)) :
     en \in [1..NumExperts -> BOOLEAN], r \in 0..MaxRetries, hooks \in {{}}}
  \cup
  {MkConfig([k \in 1..NumExperts |-> ExpertCfg(k, en[k], None, None)], 0, 0,
            DefaultDelay, TRUE, AllHooks, "default", Some(ChairTextLimit)) :
     en \in [1..NumExperts -> BOOLEAN]}

Init == InitWith(RoundConfigs, {NoOptions}, MkEnv({TextA}, 1, {TextA}, 1))

\* one expert and the chair, with deeper retry budgets, both backoff policies and hooks
OtherDelay == 3

RetryConfigs ==
  {MkConfig(<<ExpertCfg(1, TRUE, None, None)>>, r, r, d, b, {}, "default", Some(ChairTextLimit)) :
     r \in 0..MaxRetriesSolo, d \in {DefaultDelay, OtherDelay}, b \in BOOLEAN}
  \cup
  {MkConfig(<<ExpertCfg(1, TRUE, None, None)>>, r, r, DefaultDelay, TRUE, AllHooks, "default",
            Some(ChairTextLimit)) : r \in 0..MaxRetriesSolo}

InitRetry == InitWith(RetryConfigs, {NoOptions}, MkEnv({TextA}, 1, {TextA}, 1))

\* one expert whose process may print any stream of up to MaxStreamLen tokens
DecodeConfigs ==
  {MkConfig(<<ExpertCfg(1, TRUE, None, None)>>, 0, 0, DefaultDelay, TRUE, {}, "default",
            Some(ChairTextLimit)),
   MkConfig(<<ExpertCfg(1, TRUE, None, None)>>, 1, 0, DefaultDelay, TRUE, AllHooks, "default",
            Some(ChairTextLimit))}

InitDecode ==
  InitWith(DecodeConfigs, {NoOptions},
           [MkEnv(AllTokens, MaxStreamLen, {TextA}, 1) EXCEPT !.lateOutput = TRUE])

\* one expert whose answer may be longer than the chair template keeps, under
\* several configured chair.maxExpertTextLength
ShortLimit == 1
LongText == Repeat("x", ChairTextLimit + 1)

ChairConfigs ==
  {MkConfig(<<ExpertCfg(1, TRUE, None, None)>>, 1, 0, DefaultDelay, TRUE, AllHooks, "default", m) :
     m \in {Some(ShortLimit), Some(ChairTextLimit)}}

InitChair ==
  InitWith(ChairConfigs, {NoOptions},
           MkEnv({TextRec(<<"A", "B">>), TextRec(LongText)}, 1, {TextA}, 1))

\* run(task, options) with an experts override (RunOptions.experts), over every
\* combination of enabled flags; and configurations at the edge of what
\* mergeConfig and the command line accept: a negative retry count
OverrideNames == SUBSET {ExpertNames[k] : k \in 1..NumExperts}

OverrideOptions ==
  {NoOptions} \cup {[NoOptions EXCEPT !.experts = [set |-> TRUE, names |-> ns]] : ns \in OverrideNames}

OverrideConfigs ==
  {MkConfig([k \in 1..NumExperts |-> ExpertCfg(k, en[k], None, None)], 0, 0,
            DefaultDelay, TRUE, {}, "default", Some(ChairTextLimit)) :
     en \in [1..NumExperts -> BOOLEAN]}

EdgeConfigs ==
  {MkConfig([k \in 1..NumExperts |-> ExpertCfg(k, TRUE, None, None)], -1, -1,
            DefaultDelay, TRUE, {}, "default", Some(ChairTextLimit)),
   MkConfig(<<ExpertCfg(1, TRUE, None, None)>>, 1, 1, DefaultDelay, TRUE, AllHooks, "default",
            Some(ChairTextLimit))}

InitOptions ==
  \/ InitWith(OverrideConfigs, OverrideOptions, MkEnv({TextA}, 1, {TextA}, 1))
  \/ InitWith(EdgeConfigs, {NoOptions}, MkEnv({TextA}, 1, {TextA}, 1))

\* one expert with per-expert overrides of the timeout and of the retry count
\* (ExpertConfig.timeout, ExpertConfig.retries) and a chair timeout (ChairConfig.timeout),
\* each absent, zero or another value
OtherTimeout == 7
OtherRetries == 2

TuningConfigs ==
  {[MkConfig(<<ExpertCfg(1, TRUE, to, re)>>, 1, 1, DefaultDelay, TRUE, {}, "default",
             Some(ChairTextLimit)) EXCEPT !.chair.timeout = to] :
     to \in {None, Some(0), Some(OtherTimeout)}, re \in {None, Some(0), Some(OtherRetries)}}
  \cup
  {MkConfig(<<ExpertCfg(1, TRUE, Some(OtherTimeout), Some(0))>>, 1, 0, DefaultDelay, TRUE, AllHooks,
            "default", Some(ChairTextLimit))}

InitTuning == InitWith(TuningConfigs, {NoOptions}, MkEnv({TextA}, 1, {TextA}, 1))

\* one expert and the chair in an environment where every countdown may expire:
\* a process that never exits does not hold its launch back
LiveConfigs ==
  {MkConfig(<<ExpertCfg(1, TRUE, None, None)>>, r, r, DefaultDelay, TRUE, {}, "default",
            Some(ChairTextLimit)) : r \in 0..MaxRetries}
  \cup
  {MkConfig(<<ExpertCfg(1, TRUE, None, None)>>, 0, 0, DefaultDelay, TRUE, AllHooks, "default",
            Some(ChairTextLimit))}

InitLive ==
  InitWith(LiveConfigs, {NoOptions},
           [MkEnv({TextA}, 1, {TextA}, 1) EXCEPT !.maxTimeouts = 2 * (MaxRetries + 1)])

\* two Consilium instances of one process: they share `cancelled` and
\* `activeProcesses`, which are module state of agents.ts
PlainConfig ==
  MkConfig(<<ExpertCfg(1, TRUE, None, None)>>, 0, 0, DefaultDelay, TRUE, {}, "default",
           Some(ChairTextLimit))

\* experts: [] (validateConfig only warns)
EmptyConfig ==
  MkConfig(<<>>, 0, 0, DefaultDelay, TRUE, {}, "default", Some(ChairTextLimit))

HookedConfig ==
  MkConfig(<<ExpertCfg(1, TRUE, None, None)>>, 1, 0, DefaultDelay, TRUE, AllHooks, "default",
           Some(ChairTextLimit))

\* run(task, options) with a chair override (RunOptions.chair) and with hooks
\* supplied for the round (RunOptions.hooks), over a configuration with or without
\* hooks of its own
OtherChairAgent == "other"

RunOptionChoices ==
  {[NoOptions EXCEPT !.chair = c, !.hooks = hs] : c \in {"", OtherChairAgent}, hs \in HookChoices}

InitRunOptions ==
  InitWith({PlainConfig, HookedConfig}, RunOptionChoices, MkEnv({TextA}, 1, {TextA}, 1))

InitTwo ==
  /\ cancelled = FALSE
  /\ activeProcesses = {}
  /\ launches = [h \in {} |-> NewLaunch(0)]
  /\ config \in {[i \in {1, 2} |-> PlainConfig],
                 [i \in {1, 2} |-> IF i = 1 THEN HookedConfig ELSE EmptyConfig]}
  /\ options = [i \in {1, 2} |-> NoOptions]
  /\ env = MkEnv({TextA}, 1, {TextA}, 1)
  /\ run = [i \in {1, 2} |-> NewRun(DefaultChairAgent)]
  /\ tasks = [t \in {<<i, k>> : i \in {1, 2}, k \in 0..1} |-> IdleTask]
  /\ used = [throws |-> 0, busy |-> 0]

Next ==
  \/ cancel
  \/ \E i \in Insts : RunCall(i)
  \/ \E i \in Insts : RunCallBusy(i)
  \/ \E i \in Insts : CheckResolved(i)
  \/ \E i \in Insts : OnStartReturned(i)
  \/ \E i \in Insts : ExpertsSettled(i)
  \/ \E i \in Insts : ExpertsRejected(i)
  \/ \E i \in Insts : ChairSettled(i)
  \/ \E i \in Insts : ChairRejected(i)
  \/ \E i \in Insts : OnEndReturned(i)
  \/ \E i \in Insts : OnErrorReturned(i)
  \/ \E i \in Insts : RunHookThrew(i)
  \/ \E t \in TaskIds : StartHookReturned(t)
  \/ \E t \in TaskIds : AttemptResolved(t)
  \/ \E t \in TaskIds : ErrorHookReturned(t)
  \/ \E t \in TaskIds : SleepDone(t)
  \/ \E t \in TaskIds : AgentReturned(t)
  \/ \E t \in TaskIds : EndHookReturned(t)
  \/ \E t \in TaskIds : HookThrew(t)
  \/ \E h \in Handles : OnData(h)
  \/ \E h \in Handles : OnClose(h)
  \/ \E h \in Handles : OnError(h)
  \/ \E h \in Handles : OnTimeout(h)

Spec == Init /\ [][Next]_vars
SpecRetry == InitRetry /\ [][Next]_vars
SpecDecode == InitDecode /\ [][Next]_vars
SpecChair == InitChair /\ [][Next]_vars
SpecOptions == InitOptions /\ [][Next]_vars
SpecTwo == InitTwo /\ [][Next]_vars
SpecTuning == InitTuning /\ [][Next]_vars
SpecRunOptions == InitRunOptions /\ [][Next]_vars

\* what the event loop guarantees: timers fire, settled promises resume their
\* awaiters, and (by assumption) hooks return.  Nothing obliges an external
\* process to exit, to emit 'error' or to write.
TimersFire ==
  /\ WF_vars(\E h \in Handles : OnTimeout(h))
  /\ WF_vars(\E t \in TaskIds : SleepDone(t))

ContinuationsRun ==
  /\ WF_vars(\E t \in TaskIds : AttemptResolved(t))
  /\ WF_vars(\E t \in TaskIds : AgentReturned(t))
  /\ WF_vars(\E i \in Insts : ExpertsSettled(i))
  /\ WF_vars(\E i \in Insts : ExpertsRejected(i))
  /\ WF_vars(\E i \in Insts : ChairSettled(i))
  /\ WF_vars(\E i \in Insts : ChairRejected(i))

HooksReturn ==
  /\ WF_vars(\E t \in TaskIds : StartHookReturned(t))
  /\ WF_vars(\E t \in TaskIds : ErrorHookReturned(t))
  /\ WF_vars(\E t \in TaskIds : EndHookReturned(t))
  /\ WF_vars(\E i \in Insts : OnStartReturned(i))
  /\ WF_vars(\E i \in Insts : OnEndReturned(i))
  /\ WF_vars(\E i \in Insts : OnErrorReturned(i))

SpecLive == InitLive /\ [][Next]_vars /\ TimersFire /\ ContinuationsRun /\ HooksReturn

TypeOK ==
  /\ cancelled \in BOOLEAN
  /\ activeProcesses \subseteq Handles
  /\ \A t \in TaskIds : tasks[t].pc \in {"idle", "startHook", "running", "resolved", "errHook",
                                         "sleeping", "returned", "endHook", "done", "rejected"}
  /\ \A i \in Insts : run[i].status \in {"idle", "running_experts", "running_chair",
                                         "completed", "failed", "cancelled"}

(***************************************************************************)
(* Properties.                                                             *)
(***************************************************************************)
LaunchesOf(t) == {h \in Handles : TaskOf(h) = t}

\* C1: once callExpertsParallel has returned for a round with N >= 1 enabled
\* experts in its input list, the result has exactly N outcomes and the outcome
\* at the rank of an enabled expert carries that expert's name, whatever the
\* order in which the experts settled.
C1_FanOutOrdered ==
  \A i \in Insts :
    LET input == SelectedExperts(i)
        enabled == {j \in 1..Len(input) : config[i].experts[input[j]].enabled}
        rank(j) == Cardinality({m \in enabled : m <= j})
    IN (run[i].status \in {"running_chair", "completed", "cancelled"} /\ enabled # {})
       => /\ Len(run[i].expertResults) = Cardinality(enabled)
          /\ \A j \in enabled :
               run[i].expertResults[rank(j)].agent = config[i].experts[input[j]].name

\* two experts, the second settled first, the first after a retry
C1_Witness ==
  \E i \in Insts :
    /\ run[i].status = "completed"
    /\ run[i].inversion
    /\ Len(run[i].expertResults) = 2
    /\ run[i].expertResults[1].attempt = Some(1)
    /\ run[i].expertResults[2].attempt = Some(0)

\* C2: a callAgent invocation with retries = r spawns at most r + 1 processes;
\* when the outcome of attempt 0 has success = true, one process is spawned and
\* no delay is slept.
C2_AttemptBound ==
  \A t \in TaskIds :
    LET first == <<t[1], t[2], 0>>
    IN /\ Cardinality(LaunchesOf(t)) <= RetriesFor(t) + 1
       /\ (first \in Handles /\ launches[first].outcome.success)
          => (LaunchesOf(t) = {first} /\ tasks[t].slept = <<>>)

\* an expert that used all of its three attempts, and a chair that succeeded at once
C2_Witness ==
  \E t, u \in TaskIds :
    /\ RetriesFor(t) = 2
    /\ Cardinality(LaunchesOf(t)) = 3
    /\ tasks[t].pc = "done"
    /\ tasks[u].pc = "done"
    /\ launches[<<u[1], u[2], 0>>].outcome.success
    /\ Cardinality(LaunchesOf(u)) = 1

\* C3: a task that has reached attempt index a has slept exactly a delays (none
\* before attempt 0), and the delay before attempt k >= 1 is baseDelay * 2^(k-1)
\* with exponential backoff and baseDelay without.
C3_BackoffDelays ==
  \A t \in TaskIds :
    LET d == config[t[1]].retry.delay
        slept == tasks[t].slept
    IN /\ tasks[t].pc \in {"sleeping", "running", "resolved", "errHook"}
            => Len(slept) = tasks[t].attempt
       /\ \A h \in LaunchesOf(t) : Len(slept) >= h[3]
       /\ \A k \in 1..Len(slept) :
            slept[k] = IF config[t[1]].retry.exponentialBackoff THEN d * 2^(k - 1) ELSE d

\* exponential backoff from a base of 3: attempt 2 runs after delays 3 and 6
C3_Witness ==
  \E t \in TaskIds :
    /\ config[t[1]].retry.exponentialBackoff
    /\ config[t[1]].retry.delay = OtherDelay
    /\ tasks[t].pc = "running"
    /\ tasks[t].attempt = 2
    /\ tasks[t].slept = <<OtherDelay, 2 * OtherDelay>>

\* C4: no process is spawned in a step that starts with the cancellation flag set.
C4_NoSpawnWhileCancelled ==
  [][cancelled => (DOMAIN launches' \subseteq DOMAIN launches)]_vars

\* C5: when cancel() was called while the status was running_experts or
\* running_chair, a run() that returns has returned the cancelled result
\* (success = false, metadata.cancelled, status 'cancelled'; the placeholder chair
\* outcome from running_experts, the chair's own outcome from running_chair), and
\* a run() that throws does so for another reason: a hook threw, no expert was
\* selected, or the program was unavailable.
C5_CancelIsNotAnError ==
  \A i \in Insts :
    run[i].cancelAt # ""
    => /\ run[i].pc = "returned"
          => /\ run[i].status = "cancelled"
             /\ ~run[i].result.success
             /\ run[i].result.cancelled
             /\ run[i].cancelAt = "running_experts" => run[i].result.chair = PlaceholderChair(i)
             /\ run[i].cancelAt = "running_chair"
                  => run[i].result.chair = tasks[<<i, ChairIdx>>].result
       /\ run[i].pc \in {"thrown", "onError"}
          => \/ used.throws > 0
             \/ Len(SelectedExperts(i)) = 0
             \/ run[i].status = "running_experts"

\* cancelled during the chair phase: the chair's attempt still succeeded, the round did not
C5_Witness ==
  \E i \in Insts :
    /\ run[i].cancelAt = "running_chair"
    /\ run[i].pc = "returned"
    /\ run[i].status = "cancelled"
    /\ run[i].result.chair.success
    /\ ~run[i].result.success

\* C6: whenever the chair task has been started (its start hook fired or a
\* process spawned for it), every expert of the fan-out has settled.
C6_ChairAfterExperts ==
  \A i \in Insts :
    (tasks[<<i, ChairIdx>>].pc # "idle" \/ LaunchesOf(<<i, ChairIdx>>) # {})
    => \A t \in FanoutTasks(i) : tasks[t].pc = "done" /\ tasks[t].result # NoOutcome

\* the chair's process runs after two experts, one of which needed a retry
C6_Witness ==
  \E i \in Insts :
    /\ tasks[<<i, ChairIdx>>].pc = "running"
    /\ Cardinality(FanoutTasks(i)) = 2
    /\ \E t \in FanoutTasks(i) : Cardinality(LaunchesOf(t)) = 2

\* C7: a launch resolves at most once and deletes its handle at most once; once
\* finished it has done both exactly once, through one terminal path whose
\* outcome it carries, and its handle is no longer registered.
C7_OneOutcomePerLaunch ==
  \A h \in Handles :
    LET L == launches[h]
    IN /\ L.resolves <= 1
       /\ L.deletes <= 1
       /\ L.finished <=> L.resolves = 1
       /\ L.finished <=> L.deletes = 1
       /\ ~L.finished => (L.outcome = NoOutcome /\ L.path = "none")
       /\ L.finished => h \notin activeProcesses
       /\ L.path = "close" => L.outcome.errorCode \in {"none", "EMPTY_RESPONSE"}
       /\ L.path = "timeout" => (L.outcome.errorCode = "TIMEOUT" /\ L.timer = "fired")
       /\ L.path = "error" => (L.outcome.errorCode = "SPAWN_ERROR" /\ L.errored)
       /\ (L.proc = "closed" \/ L.errored \/ L.timer = "fired") => L.finished

\* 'error' followed by 'close' on one launch, and another launch whose process
\* closed after its countdown had expired
C7_Witness ==
  \E h, g \in Handles :
    /\ launches[h].path = "error"
    /\ launches[h].proc = "closed"
    /\ launches[g].path = "timeout"
    /\ launches[g].proc = "closed"

\* C8: the text a launch decodes on 'close' is the concatenation, in line order,
\* of the payloads of the lines that are one record of type 'text'; when that is
\* empty the outcome is the EMPTY_RESPONSE failure.
C8_NewlineAt(s) == {p \in 1..Len(s) : s[p].kind = "nl"}
C8_LineCount(s) == Cardinality(C8_NewlineAt(s)) + 1
C8_LineEnd(s, j) ==
  IF j = C8_LineCount(s) THEN Len(s) + 1
  ELSE CHOOSE p \in C8_NewlineAt(s) : Cardinality({q \in C8_NewlineAt(s) : q <= p}) = j
C8_Line(s, j) == SubSeq(s, IF j = 1 THEN 1 ELSE C8_LineEnd(s, j - 1) + 1, C8_LineEnd(s, j) - 1)
C8_Payload(line) ==
  LET visible(x) == x.kind # "nl" /\ x.kind # "sp"
      body == SelectSeq(line, visible)
  IN IF Len(body) = 1
        /\ body[1].kind = "rec" /\ body[1].type = "text" /\ body[1].hasPart
     THEN body[1].text ELSE <<>>
RECURSIVE C8_Concat(_, _)
C8_Concat(s, j) == IF j > C8_LineCount(s) THEN <<>> ELSE C8_Payload(C8_Line(s, j)) \o C8_Concat(s, j + 1)
C8_ExpectedText(s) == C8_Concat(s, 1)

C8_DecodeOnClose ==
  [][\A h \in Handles :
       (~launches[h].finished /\ launches'[h].path = "close")
       => LET expected == C8_ExpectedText(launches[h].stdout)
              o == launches'[h].outcome
          IN IF expected = <<>>
             THEN ~o.success /\ o.errorCode = "EMPTY_RESPONSE"
             ELSE o.success /\ o.text = expected /\ o.errorCode = "none"]_vars

\* two text records on two lines decoded to "AB"
C8_Witness ==
  \E h \in Handles :
    /\ launches[h].path = "close"
    /\ launches[h].outcome.text = <<"A", "B">>

\* C9: the default chair prompt is the job input followed, in outcome order, by a
\* section per expert outcome that holds its identity and its text cut to
\* config.chair.maxExpertTextLength.
C9_Section(i, o) ==
  <<"### ", toUpperCase(o.agent), "\n">>
    \o substring0(o.text, config[i].chair.maxExpertTextLength.val) \o <<"\n\n">>
RECURSIVE C9_Sections(_, _, _)
C9_Sections(i, results, k) ==
  IF k > Len(results) THEN <<>> ELSE C9_Section(i, results[k]) \o C9_Sections(i, results, k + 1)

C9_TruncatedToConfigured ==
  \A i \in Insts :
    (run[i].status \in {"running_chair", "completed"}
     /\ config[i].chair.promptTemplate # "custom"
     /\ config[i].chair.maxExpertTextLength.set)
    => run[i].prompt = PromptHeader(TaskText) \o C9_Sections(i, run[i].expertResults, 1) \o PromptFooter

\* C10: every outcome of a launch or of a task with success = true has no
\* errorCode and a non-empty text.
C10_Outcomes ==
  {launches[h].outcome : h \in Handles}
    \cup {tasks[t].result : t \in TaskIds} \cup {tasks[t].lastError : t \in TaskIds}

C10_SuccessHasText ==
  \A o \in C10_Outcomes : o.success => (o.errorCode = "none" /\ o.text # <<>>)

\* a task settled with a successful outcome after a first attempt that decoded nothing
C10_Witness ==
  \E t \in TaskIds :
    /\ tasks[t].pc = "done"
    /\ tasks[t].result.success
    /\ tasks[t].result.attempt = Some(1)
    /\ tasks[t].lastError.errorCode = "EMPTY_RESPONSE"

\* C11: the status of an instance changes only along idle -> running_experts ->
\* running_chair -> {completed, failed, cancelled}, with failed and cancelled also
\* reachable from running_experts; completed, failed and cancelled are never left.
C11_Allowed ==
  {<<"idle", "running_experts">>, <<"running_experts", "running_chair">>,
   <<"running_experts", "failed">>, <<"running_experts", "cancelled">>,
   <<"running_chair", "completed">>, <<"running_chair", "failed">>,
   <<"running_chair", "cancelled">>}

C11_StatusMachine ==
  [][\A i \in Insts :
       run'[i].status # run[i].status => <<run[i].status, run'[i].status>> \in C11_Allowed]_vars

\* C12: in the step in which a round ends (run() returns or throws), the registry
\* of live process handles is left empty.
C12_RoundEnded(r) == r.pc \in {"returned", "thrown"}

C12_RegistryEmptyAtRoundEnd ==
  [][\A i \in Insts :
       (C12_RoundEnded(run'[i]) /\ ~C12_RoundEnded(run[i])) => activeProcesses' = {}]_vars

\* C13: the flag is false initially; a cancel() step sets it, sends one signal to
\* every registered handle and empties the registry, touching nothing else of
\* the launches; the resetCancel() at the start of run() clears the flag and
\* leaves registry and launches as they are; the flag changes in no other step,
\* and isCancelled() is the flag.
C13_CancelStep ==
  \/ ~cancelled /\ cancelled'
  \/ \E h \in Handles : /\ launches'[h].signals > launches[h].signals
                        /\ launches'[h].timer = launches[h].timer

C13_ResetStep == \E i \in Insts : run[i].status = "idle" /\ run'[i].status # "idle"

C13_CancelResetFrame ==
  /\ cancelled = FALSE
  /\ [][/\ C13_CancelStep =>
            /\ cancelled'
            /\ activeProcesses' = {}
            /\ launches' = [h \in Handles |->
                              LET L == [launches[h] EXCEPT
                                          !.cancelledSince = launches'[h].cancelledSince]
                              IN IF h \in activeProcesses THEN [L EXCEPT !.signals = @ + 1] ELSE L]
            /\ tasks' = tasks
        /\ C13_ResetStep =>
            /\ ~cancelled'
            /\ activeProcesses' = activeProcesses
            /\ launches' = launches
            /\ tasks' = tasks
        /\ cancelled' # cancelled => (C13_CancelStep \/ C13_ResetStep)
        /\ isCancelled = cancelled]_vars

\* a second instance has just called run() (resetCancel) after a cancel() during the
\* first instance's round, with a process of the first instance still registered
C13_Witness ==
  /\ run[1].cancelAt # ""
  /\ ~cancelled
  /\ 2 \in Insts
  /\ run[2].pc = "checking"
  /\ \E h \in activeProcesses : h[1] = 1
  /\ \E h \in Handles : launches[h].signals = 1 /\ launches[h].timer # "fired"

\* C14: when an iteration of callAgent's loop begins (attempt index a) with the
\* flag set, callAgent returns in that step the outcome success = false, TIMEOUT,
\* attempt = a, and the iteration sleeps no delay, spawns no process and invokes
\* no failure hook.
C14_IterationBegins(t) ==
  /\ \/ tasks[t].calls = 0 /\ tasks'[t].calls = 1
     \/ tasks'[t].attempt = tasks[t].attempt + 1
  /\ tasks'[t].attempt < tasks'[t].maxAttempts

C14_CancelledAtLoopTop ==
  [][\A t \in TaskIds :
       (cancelled /\ C14_IterationBegins(t)) =>
         /\ tasks'[t].pc = "returned"
         /\ tasks'[t].result = Outcome(tasks'[t].agent, Str("[Otmeneno]"), FALSE, "TIMEOUT",
                                       Some(tasks'[t].attempt), None)
         /\ tasks'[t].slept = tasks[t].slept
         /\ tasks'[t].errHooks = tasks[t].errHooks
         /\ \A h \in DOMAIN launches' : TaskOf(h) = t => h \in DOMAIN launches]_vars

\* the flag was seen at the top of iteration 1: one launch, one failure hook call
\* (for attempt 0), no delay slept
C14_Witness ==
  \E t \in TaskIds :
    /\ tasks[t].pc \in {"returned", "endHook", "done"}
    /\ tasks[t].result.text = Str("[Otmeneno]")
    /\ tasks[t].result.attempt = Some(1)
    /\ tasks[t].errHooks = 1
    /\ tasks[t].slept = <<>>
    /\ Cardinality(LaunchesOf(t)) = 1

\* C15: a round whose enabled experts (those of config.experts with enabled set
\* and, under a RunOptions.experts override, named by it) are none aborts: once
\* run() is past the selection it has thrown with status 'failed' and no process
\* of the round was spawned.
C15_EnabledAtStart(i) ==
  {k \in 1..Len(config[i].experts) :
     /\ config[i].experts[k].enabled
     /\ options[i].experts.set => config[i].experts[k].name \in options[i].experts.names}

C15_NoExpertsAborts ==
  \A i \in Insts :
    (run[i].available = "yes" /\ run[i].pc # "onStart" /\ C15_EnabledAtStart(i) = {})
    => /\ run[i].status = "failed"
       /\ run[i].pc \in {"onError", "thrown"}
       /\ \A h \in Handles : h[1] # i

\* C16: when checkOpenCodeAvailable resolved false, run() has thrown, no expert or
\* chair task was started or launched, and no hook or progress event was fired.
C16_UnavailableThrowsFirst ==
  \A i \in Insts :
    run[i].available = "no"
    => /\ run[i].pc = "thrown"
       /\ run[i].events = <<>>
       /\ \A h \in Handles : h[1] # i
       /\ \A t \in TaskIds : t[1] = i => tasks[t].pc = "idle"

\* unavailable, with onStart and onError hooks configured
C16_Witness ==
  \E i \in Insts :
    /\ run[i].available = "no"
    /\ run[i].pc = "thrown"
    /\ {"onStart", "onError"} \subseteq mergeHooks(i)

\* C17: a failed attempt never makes callAgent reject.  While no hook has thrown,
\* no task is rejected and run() throws only for unavailability or an empty
\* selection; and a task that returned success = false returned a classified
\* failure that is its last attempt's outcome, or the cancellation outcome.
C17_FailuresAbsorbed ==
  /\ used.throws = 0 =>
       /\ \A t \in TaskIds : tasks[t].pc # "rejected"
       /\ \A i \in Insts : run[i].pc \in {"onError", "thrown"} =>
            (run[i].available = "no" \/ Len(SelectedExperts(i)) = 0)
  /\ \A t \in TaskIds :
       (tasks[t].pc \in {"returned", "endHook", "done"} /\ ~tasks[t].result.success) =>
         /\ tasks[t].result.errorCode \in ErrorCodes
         /\ \/ tasks[t].result.text = Str("[Otmeneno]")
            \/ \E h \in LaunchesOf(t) :
                 /\ launches[h].outcome = tasks[t].result
                 /\ \A g \in LaunchesOf(t) : g[3] <= h[3]

\* a completed round whose experts failed by timeout and by a spawn error
C17_Witness ==
  \E i \in Insts :
    /\ run[i].status = "completed"
    /\ run[i].pc = "returned"
    /\ used.throws = 0
    /\ \E j, k \in 1..Len(run[i].expertResults) :
         /\ run[i].expertResults[j].errorCode = "SPAWN_ERROR"
         /\ run[i].expertResults[k].errorCode = "TIMEOUT"
         /\ run[i].expertResults[k].text # Str("[Otmeneno]")

\* C18: whatever the configured retry count, a callAgent that has returned ran at
\* least one attempt unless it returned the cancellation outcome, and never
\* returned the synthetic 'attempts exhausted' outcome, which has no attempt index.
C18_AtLeastOneAttempt ==
  \A t \in TaskIds :
    tasks[t].pc \in {"returned", "endHook", "done"} =>
      /\ tasks[t].result.text # Str("[Vse popytki ischerpany]")
      /\ tasks[t].result.attempt.set
      /\ tasks[t].result.text # Str("[Otmeneno]") => LaunchesOf(t) # {}

\* C19: in a round callChair is entered at most once and callAgent is entered for
\* the chair only in it, once when the chair task has returned; a completed round
\* entered both exactly once; a round cancelled after the expert phase, or failed
\* before the chair phase began, entered neither and launched no chair process.
C19_ChairUntouched(i) ==
  /\ run[i].chairCalls = 0
  /\ tasks[<<i, ChairIdx>>].pc = "idle"
  /\ tasks[<<i, ChairIdx>>].calls = 0
  /\ LaunchesOf(<<i, ChairIdx>>) = {}

C19_ChairOnce ==
  \A i \in Insts :
    LET c == <<i, ChairIdx>>
    IN /\ run[i].chairCalls <= 1
       /\ tasks[c].calls <= run[i].chairCalls
       /\ tasks[c].pc \in {"returned", "endHook", "done"} => tasks[c].calls = 1
       /\ run[i].status = "completed" => (run[i].chairCalls = 1 /\ tasks[c].calls = 1)
       /\ (run[i].status = "cancelled" /\ run[i].result.chair = PlaceholderChair(i))
            => C19_ChairUntouched(i)
       /\ (run[i].status = "failed" /\ \A j \in 1..Len(run[i].events) :
                                           run[i].events[j] # "chair_start")
            => C19_ChairUntouched(i)

\* a completed round whose one chair invocation needed a retry
C19_Witness ==
  \E i \in Insts :
    /\ run[i].status = "completed"
    /\ run[i].pc = "returned"
    /\ run[i].chairCalls = 1
    /\ tasks[<<i, ChairIdx>>].calls = 1
    /\ Cardinality(LaunchesOf(<<i, ChairIdx>>)) = 2

\* C20 as stated: every result run() returned has success equal to the success
\* flag of its chair outcome, in completed and in cancelled rounds.
C20_Mirrors ==
  \A i \in Insts :
    run[i].pc = "returned" => run[i].result.success = run[i].result.chair.success

\* C20 amended: a result returned by a completed round has success equal to its
\* chair outcome's success flag; a result returned by a cancelled round has
\* success = false and the cancellation marker, whatever its chair outcome says.
C20_SuccessRule ==
  \A i \in Insts :
    run[i].pc = "returned" =>
      IF run[i].status = "cancelled"
      THEN ~run[i].result.success /\ run[i].result.cancelled
      ELSE /\ run[i].status = "completed"
           /\ ~run[i].result.cancelled
           /\ run[i].result.success = run[i].result.chair.success

\* a round cancelled while the chair ran, whose chair still closed with a text
C20_Witness ==
  \E i \in Insts :
    /\ run[i].pc = "returned"
    /\ run[i].result.cancelled
    /\ run[i].result.chair.success
    /\ run[i].result.chair.text = <<"A">>
    /\ ~run[i].result.success

\* C21: in every completed round, result.parallelTime equals the longest elapsed
\* time among the expert tasks of the round, whether an expert's final outcome
\* succeeded or failed.
C21_Longest(i) ==
  LET S == {tasks[t].elapsed : t \in FanoutTasks(i)} \cup {0}
  IN CHOOSE m \in S : \A x \in S : m >= x

C21_ParallelTimeIsLongest ==
  \A i \in Insts :
    run[i].status = "completed" /\ run[i].result # NoResult
      => run[i].result.parallelTime = C21_Longest(i)

\* C22: when the countdown of a launch expires before its process has closed or
\* errored, the process is sent one termination signal and the launch resolves to
\* success = false, errorCode TIMEOUT and the timeout placeholder text; neither
\* output that arrives later nor the later exit of the process changes that outcome.
C22_Expires(h) ==
  launches[h].timer = "pending" /\ launches'[h].timer = "fired" /\ ~launches[h].finished

C22_IsTimeoutOutcome(h, o) ==
  /\ ~o.success
  /\ o.errorCode = "TIMEOUT"
  /\ o.text = Str("[Taimaut " \o tasks[TaskOf(h)].agent \o "]")
  /\ o.attempt = Some(h[3])

C22_TimeoutOutcomeIsFinal ==
  [][\A h \in Handles :
       /\ C22_Expires(h)
            => /\ launches'[h].signals = launches[h].signals + 1
               /\ launches'[h].path = "timeout"
               /\ C22_IsTimeoutOutcome(h, launches'[h].outcome)
       /\ launches[h].path = "timeout"
            => /\ launches'[h].outcome = launches[h].outcome
               /\ launches'[h].path = "timeout"
               /\ C22_IsTimeoutOutcome(h, launches[h].outcome)
               /\ tasks[TaskOf(h)].attempt = h[3] /\ tasks'[TaskOf(h)].pc \in {"errHook", "sleeping"}
                    => tasks'[TaskOf(h)].lastError = launches[h].outcome]_vars

\* a launch whose countdown expired, whose process wrote output afterwards and then
\* exited, and whose task went on with the timeout outcome
C22_Witness ==
  \E h \in Handles :
    /\ launches[h].path = "timeout"
    /\ launches[h].signals = 1
    /\ launches[h].lateData
    /\ launches[h].proc = "closed"
    /\ launches[h].outcome.errorCode = "TIMEOUT"
    /\ tasks[TaskOf(h)].pc = "done"

\* C23: every non-successful outcome of a returned ConsiliumResult (each entry of
\* experts, and chair; completed and cancelled rounds) carries an error code of
\* the closed set {TIMEOUT, EMPTY_RESPONSE, SPAWN_ERROR, PARSE_ERROR}.
C23_Classified(o) == ~o.success => o.errorCode \in ErrorCodes

C23_FailuresClassified ==
  \A i \in Insts :
    run[i].pc = "returned" /\ run[i].status \in {"completed", "cancelled"}
      => /\ \A j \in 1..Len(run[i].result.experts) : C23_Classified(run[i].result.experts[j])
         /\ C23_Classified(run[i].result.chair)

\* C24: within one callAgent invocation the attempts are strictly sequential:
\* attempt k+1 is spawned only after attempt k has resolved its outcome and the
\* backoff delay has elapsed, so a task never has two launches awaiting an outcome.
C24_Awaiting(t) == {h \in LaunchesOf(t) : ~launches[h].finished}

C24_SpawnedNow(h) == h \notin Handles /\ h \in DOMAIN launches'

C24_AttemptsSequential ==
  /\ [](\A t \in TaskIds :
          /\ Cardinality(C24_Awaiting(t)) <= 1
          /\ \A h \in C24_Awaiting(t) : \A g \in LaunchesOf(t) : g[3] <= h[3])
  /\ [][\A t \in TaskIds : \A k \in 1..(MaxRetriesSolo + 1) :
          C24_SpawnedNow(<<t[1], t[2], k>>)
            => /\ <<t[1], t[2], k - 1>> \in Handles
               /\ launches[<<t[1], t[2], k - 1>>].finished
               /\ launches[<<t[1], t[2], k - 1>>].resolves = 1
               /\ tasks[t].pc = "sleeping"
               /\ Len(tasks[t].slept) = k]_vars

\* the second attempt awaits its outcome while the process of the first, which
\* timed out, has not exited yet
C24_Witness ==
  \E t \in TaskIds :
    /\ <<t[1], t[2], 1>> \in Handles
    /\ ~launches[<<t[1], t[2], 1>>].finished
    /\ launches[<<t[1], t[2], 0>>].path = "timeout"
    /\ launches[<<t[1], t[2], 0>>].proc = "alive"

\* C25: for every attempt whose outcome has success = false, callAgent invokes the
\* failure hook exactly once with that outcome before the next loop iteration
\* (before any delay or next spawn): onChairError for the chair, onExpertError for
\* an expert; no failure hook is invoked for a successful attempt, and the hook of
\* the other role is never invoked.
C25_Role(t) == IF t[2] = 0 THEN "onChairError" ELSE "onExpertError"

C25_Failures(t) ==
  LET isFailureHook(e) == e.hook \in {"onChairError", "onExpertError"}
  IN SelectSeq(tasks[t].log, isFailureHook)

\* the failed attempts whose outcome callAgent has received
C25_Taken(t) ==
  {h \in LaunchesOf(t) :
     /\ launches[h].finished
     /\ ~launches[h].outcome.success
     /\ ~(h[3] = tasks[t].attempt /\ tasks[t].pc \in {"running", "resolved"})}

C25_FailureHookPerFailedAttempt ==
  \A t \in TaskIds :
    LET errs == C25_Failures(t)
    IN /\ Len(errs) = IF C25_Role(t) \in config[t[1]].hooks THEN Cardinality(C25_Taken(t)) ELSE 0
       /\ \A j \in 1..Len(errs) :
            /\ errs[j].hook = C25_Role(t)
            /\ <<t[1], t[2], j - 1>> \in Handles
            /\ errs[j].arg = launches[<<t[1], t[2], j - 1>>].outcome
            /\ ~errs[j].arg.success
            /\ errs[j].launched = j
            /\ errs[j].slept = j - 1

\* an expert that failed twice and succeeded on its third attempt, and a chair
\* that failed once
C25_Witness ==
  \E t \in TaskIds :
    /\ t[2] # 0
    /\ Len(C25_Failures(t)) = 2
    /\ tasks[t].pc = "done"
    /\ tasks[t].result.success
    /\ Len(C25_Failures(<<t[1], 0>>)) = 1

\* C26: for every enabled expert of a round, onExpertStart fires exactly once,
\* before the expert's first attempt, and onExpertEnd fires exactly once, after the
\* expert's final outcome and carrying it; the onExpertStart notifications fire in
\* input order; for a disabled expert neither hook fires and no process is spawned.
C26_Calls(t, name) ==
  LET isThatHook(e) == e.hook = name
  IN SelectSeq(tasks[t].log, isThatHook)

C26_FannedOut(i) == \E j \in 1..Len(run[i].events) : run[i].events[j] = "expert_start"

C26_InRound(i, k) ==
  /\ config[i].experts[k].enabled
  /\ options[i].experts.set => config[i].experts[k].name \in options[i].experts.names

C26_InputOrder(i) ==
  LET inRound(k) == C26_InRound(i, k)
  IN SelectSeq([k \in 1..Len(config[i].experts) |-> k], inRound)

C26_ExpertHooksBracketTheTask ==
  \A t \in TaskIds :
    LET i == t[1]
        k == t[2]
        tk == tasks[t]
        starts == C26_Calls(t, "onExpertStart")
        ends == C26_Calls(t, "onExpertEnd")
    IN k # 0 =>
         /\ ~C26_InRound(i, k) => tk.log = <<>> /\ LaunchesOf(t) = {}
         /\ C26_InRound(i, k) /\ C26_FannedOut(i) /\ "onExpertStart" \in config[i].hooks
              => /\ Len(starts) = 1
                 /\ tk.log[1].hook = "onExpertStart"
                 /\ tk.log[1].launched = 0
                 /\ run[i].startOrder = C26_InputOrder(i)
         /\ C26_InRound(i, k) /\ "onExpertEnd" \in config[i].hooks
              => /\ Len(ends) <= 1
                 /\ Len(ends) = 1 => tk.pc \in {"endHook", "done", "rejected"}
                 /\ tk.pc \in {"endHook", "done"}
                      => /\ Len(ends) = 1
                         /\ tk.log[Len(tk.log)] = ends[1]
                         /\ ends[1].arg = tk.result
                         /\ ends[1].arg # NoOutcome
                         /\ ends[1].launched = Cardinality(LaunchesOf(t))
                         /\ \A h \in LaunchesOf(t) : launches[h].finished
                 /\ \A j \in 1..Len(run[i].expertResults) :
                      run[i].fanout[j] = k => Len(ends) = 1 /\ run[i].expertResults[j] = ends[1].arg

\* both experts were notified in input order; the second has finished and its end
\* hook has returned while the first is still running
C26_Witness ==
  \E i \in Insts :
    /\ run[i].startOrder = <<1, 2>>
    /\ tasks[<<i, 2>>].pc = "done"
    /\ Len(C26_Calls(<<i, 2>>, "onExpertEnd")) = 1
    /\ tasks[<<i, 1>>].pc = "running"
    /\ Len(C26_Calls(<<i, 1>>, "onExpertStart")) = 1

\* C27: during the expert phase an expert that fails, times out, retries or is
\* slow never makes the engine signal a sibling's process, never changes a
\* sibling's attempt count and never removes a sibling's outcome from the result:
\* an expert's final outcome depends only on its own attempts and on the flag.
C27_CancelStep == cancelled' /\ activeProcesses' = {} /\ tasks' = tasks

C27_Signalled(h) == launches'[h].signals > launches[h].signals

C27_Touched(t) ==
  \/ tasks'[t] # tasks[t]
  \/ \E h \in DOMAIN launches' : TaskOf(h) = t /\ (h \notin Handles \/ launches'[h] # launches[h])

C27_OwnOutcome(t) ==
  \/ tasks[t].result.text \in {Str("[Otmeneno]"), Str("[Vse popytki ischerpany]")}
  \/ \E h \in LaunchesOf(t) :
       /\ \A g \in LaunchesOf(t) : g[3] <= h[3]
       /\ [tasks[t].result EXCEPT !.duration = None] = launches[h].outcome

C27_SiblingsIsolated ==
  /\ [][/\ \A h \in Handles :
             C27_Signalled(h)
               => C27_CancelStep \/ (launches[h].timer = "pending" /\ launches'[h].timer = "fired")
        /\ \A t, u \in TaskIds :
             /\ t[1] = u[1] /\ t[2] # 0 /\ u[2] # 0 /\ t # u
             /\ tasks[t].pc # "idle"
             /\ C27_Touched(t) /\ C27_Touched(u)
             => C27_CancelStep]_vars
  /\ [](\A t \in TaskIds :
          t[2] # 0 /\ tasks[t].pc \in {"returned", "endHook", "done"} => C27_OwnOutcome(t))
  /\ [](\A i \in Insts :
          run[i].pc = "returned" /\ run[i].status \in {"completed", "cancelled"}
            => /\ Len(run[i].result.experts) = Len(C26_InputOrder(i))
               /\ \A j \in 1..Len(run[i].result.experts) :
                    run[i].result.experts[j] = tasks[<<i, C26_InputOrder(i)[j]>>].result)

\* a completed round whose first expert timed out and was retried, while the
\* second expert's only process was never signalled and its answer is in the result
C27_Witness ==
  \E i \in Insts :
    /\ run[i].status = "completed"
    /\ run[i].pc = "returned"
    /\ <<i, 1, 1>> \in Handles
    /\ launches[<<i, 1, 0>>].path = "timeout"
    /\ <<i, 2, 0>> \in Handles
    /\ launches[<<i, 2, 0>>].signals = 0
    /\ tasks[<<i, 2>>].attempt = 0
    /\ run[i].result.experts[2].success

\* C28: the engine never sends a termination signal to a handle whose launch has
\* already finished: cancel() signals only launches that have not reached a
\* terminal path, and the countdown of a launch never kills after the launch's
\* close or error path has run.
C28_NoSignalAfterFinish ==
  [][\A h \in Handles :
       /\ launches'[h].signals > launches[h].signals => ~launches[h].finished
       /\ launches[h].path \in {"close", "error"}
            => launches'[h].signals = launches[h].signals /\ launches'[h].timer # "fired"]_vars

\* cancel() ran when one expert's launch had already closed and the other's had
\* not: only the second was signalled
C28_Witness ==
  \E h, g \in Handles :
    /\ launches[h].path = "close"
    /\ ~launches[h].cancelledSince
    /\ launches[h].signals = 0
    /\ launches[g].cancelledSince
    /\ launches[g].signals = 1
    /\ h[1] = g[1]
    /\ run[h[1]].cancelAt = "running_experts"

\* C29: no registration is lost: every launch whose process has been spawned and
\* which has not reached a terminal path is a member of activeProcesses, unless
\* cancel() has been called since the process was spawned; and activeProcesses
\* never contains the handle of a launch that has reached a terminal path.
C29_NoLostRegistration ==
  /\ \A h \in Handles :
       ~launches[h].finished /\ ~launches[h].cancelledSince => h \in activeProcesses
  /\ \A h \in activeProcesses : h \in Handles /\ ~launches[h].finished

\* one instance's launch was cleared from the registry by cancel() and is still
\* awaiting its outcome while the other instance's launch, spawned later, is registered
C29_Witness ==
  \E h, g \in Handles :
    /\ h[1] # g[1]
    /\ ~launches[h].finished /\ launches[h].cancelledSince /\ h \notin activeProcesses
    /\ ~launches[g].finished /\ ~launches[g].cancelledSince /\ g \in activeProcesses

\* C30: run() called on an instance whose status is not 'idle' throws without
\* resetting the cancellation flag, without changing the status and without
\* spawning a process; hence within one instance the flag is reset only at round
\* start, never mid-round, and an instance executes at most one round.
C30_Refused == used'.busy = used.busy + 1

C30_RoundStart(i) == run[i].status = "idle" /\ run'[i].status = "running_experts"

C30_FanOuts(i) ==
  LET isFanOut(e) == e = "expert_start"
  IN Len(SelectSeq(run[i].events, isFanOut))

C30_BusyRunIsRefused ==
  /\ [][/\ C30_Refused
             => /\ \E i \in Insts : run[i].status # "idle"
                /\ cancelled' = cancelled
                /\ run' = run
                /\ tasks' = tasks
                /\ launches' = launches
                /\ activeProcesses' = activeProcesses
        /\ cancelled /\ ~cancelled' => \E i \in Insts : C30_RoundStart(i)
        /\ \A i \in Insts : run[i].status # "idle" => run'[i].status # "idle"]_vars
  /\ [](\A i \in Insts : C30_FanOuts(i) <= 1 /\ run[i].chairCalls <= 1)
  /\ [](\A t \in TaskIds : tasks[t].calls <= 1)

\* a run() call has been refused, the round is in its expert phase with a process
\* registered, and the flag set by cancel() is still set
C30_Witness ==
  \E i \in Insts :
    /\ used.busy = 1
    /\ cancelled
    /\ run[i].status = "running_experts"
    /\ run[i].cancelAt = "running_experts"
    /\ \E h \in Handles : h[1] = i /\ ~launches[h].finished

\* C31: the timeout and the retry count used by an expert's attempts are the
\* expert's own override when one is given (for every override value, 0 included)
\* and config.timeouts.expert / config.retry.expertRetries otherwise; the chair
\* uses config.chair.timeout when given, else config.timeouts.chair, and
\* config.retry.chairRetries.
C31_Given(opt, default) == IF opt.set THEN opt.val ELSE default

C31_Timeout(t) ==
  IF t[2] = 0 THEN C31_Given(config[t[1]].chair.timeout, config[t[1]].timeouts.chair)
  ELSE C31_Given(config[t[1]].experts[t[2]].timeout, config[t[1]].timeouts.expert)

C31_Retries(t) ==
  IF t[2] = 0 THEN config[t[1]].retry.chairRetries
  ELSE C31_Given(config[t[1]].experts[t[2]].retries, config[t[1]].retry.expertRetries)

C31_OverridesUsed ==
  /\ \A h \in Handles : launches[h].timeoutMs = C31_Timeout(TaskOf(h))
  /\ \A t \in TaskIds : tasks[t].calls > 0 => tasks[t].maxAttempts = C31_Retries(t) + 1

\* C32: every outcome returned by callAgent carries the attempt index at which it
\* was reached: a success at attempt k has attempt = k, an exhausted failure with
\* retries = r has attempt = r, a cancellation outcome has the index of the loop
\* iteration that observed the flag; and a successful outcome carries the duration
\* of the successful attempt only, without earlier attempts and delays.
C32_Returned(t) == tasks[t].pc \in {"returned", "endHook", "done"}

C32_Latest(t) == CHOOSE h \in LaunchesOf(t) : \A g \in LaunchesOf(t) : g[3] <= h[3]

C32_AttemptIndexCarried ==
  \A t \in TaskIds :
    C32_Returned(t) =>
      LET o == tasks[t].result
          n == Cardinality(LaunchesOf(t))
      IN IF o.success
         THEN /\ n >= 1
              /\ launches[C32_Latest(t)].outcome.success
              /\ o.attempt = Some(n - 1)
              /\ o.duration.set
              /\ o.duration.val \in env.durations
              /\ tasks[t].elapsed >= n
         ELSE IF o.text = Str("[Otmeneno]")
         THEN o.attempt = Some(n) /\ n < tasks[t].maxAttempts /\ ~o.duration.set
         ELSE /\ o.attempt = Some(tasks[t].maxAttempts - 1)
              /\ n = tasks[t].maxAttempts
              /\ ~o.duration.set

\* a task that failed twice and succeeded at attempt 2: the outcome has attempt 2
\* and the duration of one attempt, while three attempts were awaited
C32_Witness ==
  \E t \in TaskIds :
    /\ C32_Returned(t)
    /\ tasks[t].result.success
    /\ tasks[t].result.attempt = Some(2)
    /\ tasks[t].result.duration = Some(1)
    /\ tasks[t].elapsed = 3

\* C33: with two instances running rounds in one process, the process-wide flag
\* and registry make the rounds interfere: cancel() issued for one round signals
\* and cancels the other round's tasks too, and the start of a round on one
\* instance (resetCancel) clears a cancellation already signalled for the other
\* instance's round in progress, which then goes on spawning.
C33_CancelStep ==
  \E h \in Handles : launches'[h].signals > launches[h].signals /\ launches'[h].timer = launches[h].timer

C33_CrossRoundInterference ==
  [][/\ C33_CancelStep
          => /\ cancelled'
             /\ \A h \in activeProcesses : launches'[h].signals = launches[h].signals + 1
             /\ activeProcesses' = {}
     /\ \A i \in Insts :
          /\ run[i].status = "idle" /\ run'[i].status # "idle" => ~cancelled'
          /\ run[i].status = "running_experts" /\ run'[i].status = "cancelled" => cancelled
          /\ run[i].status = "running_experts" /\ run'[i].status = "running_chair" => ~cancelled
          /\ run[i].status = "running_chair" /\ run'[i].status = "completed" => ~cancelled]_vars

\* cancel() was called during the first round's expert phase; the second
\* instance's run() cleared the flag, so the first round went on to spawn its
\* chair; a second cancel() then signalled the processes of both rounds
C33_Witness ==
  \E i, j \in Insts :
    /\ i # j
    /\ run[i].cancelAt = "running_experts"
    /\ run[i].status = "running_chair"
    /\ <<i, 0, 0>> \in Handles
    /\ launches[<<i, 0, 0>>].signals = 1
    /\ <<j, 1, 0>> \in Handles
    /\ launches[<<j, 1, 0>>].signals = 1
    /\ ~launches[<<j, 1, 0>>].finished

\* C34: every round terminates: if hooks return and timers fire, every run() call
\* that passes the idle guard eventually returns a result or throws.
C34_EveryRoundTerminates ==
  \A i \in {1} : (run[i].status # "idle") ~> (run[i].pc \in {"returned", "thrown"})

\* C35: whenever a run() call that passed the idle guard has returned or thrown,
\* the status is completed, failed or cancelled: a returned result that is not a
\* cancelled one implies 'completed', a returned cancelled result implies
\* 'cancelled', and every thrown error implies 'failed' with onError invoked
\* exactly once.
C35_Count(i, name) ==
  LET isThat(e) == e = name
  IN Len(SelectSeq(run[i].events, isThat))

C35_FinalStatus ==
  \A i \in Insts :
    /\ run[i].pc \in {"returned", "thrown"} => run[i].status \in {"completed", "failed", "cancelled"}
    /\ run[i].pc = "returned"
         => run[i].status = IF run[i].result.cancelled THEN "cancelled" ELSE "completed"
    /\ run[i].pc = "thrown"
         => /\ run[i].status = "failed"
            /\ "onError" \in mergeHooks(i) => C35_Count(i, "onError") = 1

\* C36: the round-end observer onEnd is invoked exactly once, with the returned
\* result, for every round in which run() returns a ConsiliumResult (completed or
\* cancelled), and is never invoked for a round in which run() throws.
C36_OnEndCalls(i) ==
  LET isOnEnd(e) == e = "onEnd"
  IN Len(SelectSeq(run[i].events, isOnEnd))

C36_OnEndOncePerResult ==
  \A i \in Insts :
    "onEnd" \in mergeHooks(i)
      => /\ run[i].pc = "returned" => C36_OnEndCalls(i) = 1
         /\ run[i].pc = "thrown" => C36_OnEndCalls(i) = 0

\* C37: the chair override of RunOptions.chair is temporary: after run() has
\* returned or thrown, in every outcome of the round (completed, cancelled during
\* the chair phase, failed because a chair hook or the template threw),
\* config.chair.agent equals its value from before the call.
C37_ChairAgentRestored ==
  \A i \in Insts :
    run[i].pc \in {"returned", "thrown"} => run[i].chairAgent = DefaultChairAgent

\* C38: every hook supplied in RunOptions.hooks for a run is invoked at its
\* lifecycle event during that run: onStart, onEnd and onError, and equally the
\* per-task hooks onExpertStart, onExpertEnd, onExpertError, onChairStart,
\* onChairEnd and onChairError.
\* (Hooks are known by name: an invocation of a same-named hook of config.hooks
\* counts here as an invocation.)
C38_Invoked(i, name) ==
  IF name \in RunHooks
  THEN \E j \in 1..Len(run[i].events) : run[i].events[j] = name
  ELSE \E t \in TaskIds : t[1] = i /\ \E j \in 1..Len(tasks[t].log) : tasks[t].log[j].hook = name

\* the lifecycle event of the hook has happened in the round of instance i
C38_Due(i, name) ==
  LET c == <<i, ChairIdx>>
  IN CASE name = "onStart" -> run[i].available = "yes"
       [] name = "onEnd" -> run[i].status = "completed"
       [] name = "onError" -> run[i].status = "failed"
       [] name = "onExpertStart" -> \E t \in FanoutTasks(i) : tasks[t].pc # "idle"
       [] name = "onExpertEnd" -> \E t \in FanoutTasks(i) : tasks[t].pc = "done"
       [] name = "onExpertError" -> \E t \in FanoutTasks(i) : tasks[t].lastError # NoOutcome
       [] name = "onChairStart" -> run[i].chairCalls > 0
       [] name = "onChairEnd" -> tasks[c].pc = "done"
       [] name = "onChairError" -> tasks[c].lastError # NoOutcome

C38_RunHooksInvoked ==
  \A i \in Insts : \A name \in options[i].hooks : C38_Due(i, name) => C38_Invoked(i, name)

\* C39: if cancel() is called after run() has reset the flag but before the
\* fan-out begins (while run() awaits the availability check or the onStart
\* hook), no expert or chair process is ever spawned in that round, every expert
\* outcome is a cancellation outcome with attempt = 0, and run() returns the
\* cancelled result (it throws only where a per-expert hook threw); a cancel()
\* issued before run() is called is discarded by the reset and does not affect
\* the round.
C39_EarlyCancel(i) == run[i].flagAtFanOut

C39_NothingSpawned ==
  \A i \in Insts :
    C39_EarlyCancel(i)
      => /\ \A h \in Handles : h[1] # i
         /\ run[i].chairCalls = 0
         /\ tasks[<<i, ChairIdx>>].pc = "idle"
         /\ \A t \in FanoutTasks(i) :
              /\ tasks[t].pc \in {"startHook", "returned", "endHook", "done", "rejected"}
              /\ tasks[t].pc \in {"returned", "endHook", "done"} \/ tasks[t].result # NoOutcome
                   => tasks[t].result = CancelledOutcome(tasks[t].agent, 0)
         /\ run[i].pc \in {"experts", "returned", "onError", "thrown"}
         /\ run[i].pc = "returned"
              => /\ run[i].status = "cancelled"
                 /\ run[i].result = createCancelledResult(i, PromiseAll(i), NoOutcome)
                 /\ Len(run[i].result.experts) = Len(run[i].fanout)
                 /\ \A j \in 1..Len(run[i].fanout) :
                      run[i].result.experts[j] =
                        CancelledOutcome(config[i].experts[run[i].fanout[j]].name, 0)
         /\ run[i].pc \in {"onError", "thrown"} => \E t \in FanoutTasks(i) : tasks[t].pc = "rejected"

\* run() passing the idle guard: the flag it finds, set by a cancel() before the
\* call, is cleared, and the round starts as one that was never cancelled
C39_ResetStep ==
  \A i \in Insts :
    (run[i].pc = "new" /\ run'[i].pc = "checking")
      => /\ ~cancelled'
         /\ run'[i].cancelAt = ""
         /\ ~run'[i].flagAtFanOut

C39_CancelBeforeFanOut == [](C39_NothingSpawned) /\ [][C39_ResetStep]_vars

\* a round over two experts cancelled before its fan-out has returned the
\* cancelled result
C39_Witness ==
  \E i \in Insts :
    /\ C39_EarlyCancel(i)
    /\ Len(run[i].fanout) = 2
    /\ run[i].pc = "returned"
    /\ run[i].result.cancelled

====
